---- MODULE Spec2Model ----
(***************************************************************************)
(* Change detection and state reconciliation of the theatre monitor:       *)
(* afisha.py (show listing) and tickets.py (seat availability).            *)
(*                                                                         *)
(* Text is modelled structurally.  A link is a record of the components    *)
(* urllib.parse sees in it; LinkStr gives the string it stands for, and    *)
(* two links are the same Python string iff their LinkStr are equal.       *)
(* A line of a message is a record of its leading whitespace, its core     *)
(* (first to last non-whitespace character) and its trailing whitespace.   *)
(***************************************************************************)
EXTENDS Integers, Sequences, FiniteSets, TLC

VARIABLES
    old,            \* find_changed_shows: argument `old`
    new,            \* find_changed_shows / _dedupe_normalize_filter_to_links: argument
    changes,        \* result of find_changed_shows
    links,          \* result of _dedupe_normalize_filter_to_links
    done,           \* the operations that have been applied
    message,        \* send_telegram_message: argument `message`
    chat_ids,       \* CHAT_IDS, read from the environment at import
    posted,         \* the requests handed to the transport, in order
    success,        \* return value of send_telegram_message
    failed,         \* the positions in `posted` of the requests that failed
    call,           \* a call of get_shows_with_retry or check_tickets_for_show
    stable,         \* history: for each ticket url, the seat counts that a scrape
                    \* returned and no later scrape of the url fell below
    enabled,        \* the environment variable AFISHA_CHECK_ENABLED
    shows_file,     \* the file named by SHOWS_FILE
    seats_file,     \* the file named by SEATS_FILE
    program,        \* the program whose main ran last
    loaded,         \* how the load of the previous snapshot ended
    previous_shows, \* afisha.main: what load_previous_shows returned
    current_shows,  \* afisha.main: what get_shows_with_retry returned
    previous_seats, \* tickets.main: what load_previous_seats returned
    current_seats,  \* tickets.main: what check_all_shows returned
    sent,           \* the messages main handed to send_telegram_message, in order
    saved,          \* the snapshots main handed to save_shows / save_seats
    write,          \* how the write of that snapshot ended
    outcome,        \* the branch main took
    date_text,      \* _parse_ru_date_text_to_ddmmyyyy: argument `text`
    parsed,         \* what _parse_ru_date_text_to_ddmmyyyy returned
    tickets_cache_file, \* the file named by TICKETS_CACHE_FILE
    ticket_urls,    \* selenium_seats.main: the ticket pages it goes on to scrape
    out,            \* selenium_seats.main: the seat data by ticket url
    seats_out_file  \* the file named by SEATS_OUT_FILE

diffVars == <<old, new, links>>
sendVars == <<message, success, failed>>
callVars == <<call>>
histVars == <<stable>>
envVars == <<chat_ids, enabled>>
dateVars == <<date_text, parsed>>
seatVars == <<tickets_cache_file, ticket_urls, out, seats_out_file>>
runVars == <<shows_file, seats_file, program, loaded, previous_shows, current_shows,
             previous_seats, current_seats, sent, saved, write, outcome>>
vars == <<old, new, changes, links, done, message, chat_ids, posted, success,
          failed, call, stable, enabled, shows_file, seats_file, program, loaded, previous_shows,
          current_shows, previous_seats, current_seats, sent, saved, write,
          outcome, date_text, parsed, tickets_cache_file, ticket_urls, out,
          seats_out_file>>

(***************************************************************************)
(* Links                                                                   *)
(***************************************************************************)

\* Python None (a dict without "link", or an entry that is neither str nor dict).
NoLink == "<None>"

\* The components of a link string: scheme://host, path (rooted or not,
\* segments, trailing slashes), ?query, #frag, followed by `pad` trailing
\* blanks.
Url(scheme, host, rooted, segs, slashes, query, frag, pad) ==
    [scheme |-> scheme, host |-> host, rooted |-> rooted, segs |-> segs,
     slashes |-> slashes, query |-> query, frag |-> frag, pad |-> pad]

Rel(rooted, segs, slashes, pad) == Url("", "", rooted, segs, slashes, "", "", pad)

Abs(scheme, host, segs, slashes, query) ==
    Url(scheme, host, TRUE, segs, slashes, query, "", 0)

RECURSIVE Rep(_, _)
Rep(s, n) == IF n = 0 THEN "" ELSE s \o Rep(s, n - 1)

RECURSIVE JoinStr(_, _)
JoinStr(seq, sep) ==
    IF seq = <<>> THEN ""
    ELSE IF Len(seq) = 1 THEN seq[1]
    ELSE seq[1] \o sep \o JoinStr(Tail(seq), sep)

\* The path component as urlparse returns it, without trailing blanks.  The
\* path "/" is no segment and one slash; `rooted` tells whether a path with
\* segments starts with "/".
PathStr(u) ==
    (IF u.rooted /\ u.segs # <<>> THEN "/" ELSE "")
    \o JoinStr(u.segs, "/")
    \o Rep("/", u.slashes)

\* urlunparse: the string of the components.
LinkStr(u) ==
    (IF u.scheme # "" THEN u.scheme \o "://" \o u.host ELSE "")
    \o PathStr(u)
    \o (IF u.query # "" THEN "?" \o u.query ELSE "")
    \o (IF u.frag # "" THEN "#" \o u.frag ELSE "")
    \o Rep(" ", u.pad)

AFISHA_BASE == "https://puppet-minsk.by"

\* The link strings of the model, by their components.
ListingRaw == Rel(TRUE, <<"afisha">>, 0, 0)                    \* "/afisha"
ListingRawPadded == Rel(TRUE, <<"afisha">>, 0, 1)              \* "/afisha "
ListingRelSlash == Rel(FALSE, <<"afisha">>, 1, 0)              \* "afisha/"
ListingAbs == Abs("https", "puppet-minsk.by", <<"afisha">>, 0, "")
ListingAbsSlash == Abs("https", "puppet-minsk.by", <<"afisha">>, 1, "")
ShowRel == Rel(TRUE, <<"spektakli", "item", "1">>, 0, 0)
ShowAbs == Abs("https", "puppet-minsk.by", <<"spektakli", "item", "1">>, 0, "")
Show2Abs == Abs("https", "puppet-minsk.by", <<"spektakli", "item", "2">>, 0, "")
TicketAbs == Abs("https", "tce.by", <<"shows.html">>, 0, "base=RkZD&data=3811")
BaseUrl == Abs("https", "puppet-minsk.by", <<>>, 0, "")
FtpAbs == Abs("ftp", "puppet-minsk.by", <<"spektakli", "item", "3">>, 0, "")

RawUrls ==
    { ListingRaw, ListingRawPadded, ListingRelSlash, ListingAbs, ListingAbsSlash,
      ShowRel, ShowAbs, Show2Abs, TicketAbs, BaseUrl, Rel(FALSE, <<>>, 0, 0),
      FtpAbs }

\* `not link`
Falsy(link) == link = NoLink \/ link = ""

\* urljoin(base, u): a link with scheme and host is returned as it is; of a
\* link without them an empty path keeps the base's path, any other path is
\* resolved against the base's empty path.
UrljoinParts(b, u) ==
    IF u.scheme # "" THEN u
    ELSE IF u.segs = <<>> /\ u.slashes = 0
    THEN [u EXCEPT !.scheme = b.scheme, !.host = b.host, !.rooted = b.rooted,
                   !.segs = b.segs, !.slashes = b.slashes]
    ELSE [u EXCEPT !.scheme = b.scheme, !.host = b.host, !.rooted = TRUE]

\* urlparse, on the link strings of the model and on what urljoin makes of
\* them: the components whose string the link is.
Urls == RawUrls \cup {UrljoinParts(BaseUrl, u) : u \in {r \in RawUrls : r.scheme = ""}}

RECURSIVE ParseTable(_)
ParseTable(us) ==
    IF us = {} THEN [s \in {} |-> BaseUrl]
    ELSE LET u == CHOOSE x \in us : TRUE
         IN  (LinkStr(u) :> u) @@ ParseTable(us \ {u})

urlparse == ParseTable(Urls)

\* link.startswith("http")
StartsWithHttp(link) == Len(link) >= 4 /\ SubSeq(link, 1, 4) = "http"

\* The strings the model works on.
LinkStrs == DOMAIN urlparse

\* urljoin and str.strip on the strings of the model, computed once.
RECURSIVE UrljoinTable(_, _)
UrljoinTable(base, ls) ==
    IF ls = {} THEN [s \in {} |-> ""]
    ELSE LET l == CHOOSE x \in ls : TRUE
         IN  (l :> LinkStr(UrljoinParts(urlparse[base], urlparse[l])))
                 @@ UrljoinTable(base, ls \ {l})

RECURSIVE StripTable(_)
StripTable(ls) ==
    IF ls = {} THEN [s \in {} |-> ""]
    ELSE LET l == CHOOSE x \in ls : TRUE
         IN  (l :> LinkStr([urlparse[l] EXCEPT !.pad = 0])) @@ StripTable(ls \ {l})

UrljoinBase == UrljoinTable(AFISHA_BASE, LinkStrs)
Stripped == StripTable(LinkStrs)

urljoin(base, link) == UrljoinBase[link]

strip(link) == Stripped[link]

\* The base put in front of every link, absolute or not.
NormalizeConcat(link) == AFISHA_BASE \o link

\* link if link.startswith("http") else urljoin(AFISHA_BASE, link)
Normalize(link) == IF StartsWithHttp(link) THEN link ELSE urljoin(AFISHA_BASE, link)

\* The comparison without rstrip("/").
PathIsAfishaNoRstrip(u) ==
    /\ u.rooted
    /\ u.segs = <<"afisha">>
    /\ u.slashes = 0
    /\ (u.query = "" /\ u.frag = "" => u.pad = 0)

\* parsed.path.rstrip("/") == "/afisha"; trailing blanks of a link without
\* query and fragment belong to its path.
PathIsAfisha(u) ==
    LET pathPad == IF u.query = "" /\ u.frag = "" THEN u.pad ELSE 0
        stripped == IF pathPad = 0 THEN [u EXCEPT !.slashes = 0] ELSE u
    IN  /\ stripped.rooted
        /\ stripped.segs = <<"afisha">>
        /\ stripped.slashes = 0
        /\ pathPad = 0

\* link.strip() == "/afisha"
StripIsAfisha(link) == strip(link) = "/afisha"

_is_afisha_path(link) ==
    IF Falsy(link) THEN FALSE
    ELSE IF StripIsAfisha(link) THEN TRUE
    ELSE IF urlparse[link].scheme \in {"http", "https"} THEN PathIsAfisha(urlparse[link])
    ELSE FALSE

(***************************************************************************)
(* Show entries                                                            *)
(***************************************************************************)

\* An entry of a show list: a bare link string, a dict (with or without
\* "link" and "dates"), or anything else (null).
\* has_dates tells whether a dict has a "dates" key.
Str(u) == [type |-> "str", link |-> u, has_dates |-> FALSE, dates |-> <<>>]
Dict(u, ds) == [type |-> "dict", link |-> u, has_dates |-> TRUE, dates |-> ds]
DictNoDates(u) == [type |-> "dict", link |-> u, has_dates |-> FALSE, dates |-> <<>>]
Null == [type |-> "null", link |-> NoLink, has_dates |-> FALSE, dates |-> <<>>]

ToSet(seq) == {seq[i] : i \in DOMAIN seq}

SeqsUpTo(S, n) == UNION {[1..k -> S] : k \in 0..n}

extract_link(entry) ==
    IF entry.type \in {"dict", "str"} THEN entry.link ELSE NoLink

normalize_link(link) ==
    IF Falsy(link) THEN NoLink ELSE Normalize(link)

\* entry.get("dates", []) of a dict
GetDates(entry) ==
    IF entry.type = "dict" /\ entry.has_dates THEN entry.dates ELSE <<>>

\* The dates kept as the list they come in, not as a set.
extract_dates_as_list(entry) ==
    IF entry.type = "dict" THEN GetDates(entry) ELSE <<>>

extract_dates(entry) ==
    IF entry.type = "dict" THEN ToSet(GetDates(entry)) ELSE {}

\* The lookup of the old shows by normalized link (a later entry of the same
\* link replaces an earlier one).
RECURSIVE OldShowsByLink(_, _)
OldShowsByLink(items, acc) ==
    IF items = <<>> THEN acc
    ELSE LET item == Head(items)
             link == extract_link(item)
             normalized == normalize_link(link)
         IN  IF /\ ~Falsy(link)
                /\ normalized # NoLink
                /\ ~_is_afisha_path(link)
                /\ ~_is_afisha_path(normalized)
             THEN OldShowsByLink(Tail(items),
                      (normalized :>
                          [link |-> normalized, dates |-> extract_dates(item)]) @@ acc)
             ELSE OldShowsByLink(Tail(items), acc)

\* new_dates != old_dates, on sets
DatesDiffer(new_dates, old_dates) == new_dates # old_dates

\* The check of seen_in_result left out.
SeenInResultNever(normalized, seen_in_result) == FALSE

\* normalized in seen_in_result
SeenInResult(normalized, seen_in_result) == normalized \in seen_in_result

\* The show object always built from the link alone.
NewShowWithoutDates(item, normalized) == Dict(normalized, <<>>)

\* The enriched show object of an entry.
NewShow(item, normalized) ==
    IF item.type = "dict" /\ item.has_dates THEN item ELSE Dict(normalized, <<>>)

\* One iteration of the loop over `new`.
ClassifyItem(item, old_shows_by_link, acc) ==
    LET link == extract_link(item)
        normalized == normalize_link(link)
    IN  IF Falsy(link) THEN acc
        ELSE IF _is_afisha_path(link) \/ _is_afisha_path(normalized) THEN acc
        ELSE IF SeenInResult(normalized, acc.seen_in_result) THEN acc
        ELSE LET new_show == NewShow(item, normalized)
                 new_dates == extract_dates(new_show)
                 seen == acc.seen_in_result \cup {normalized}
             IN  IF normalized \in DOMAIN old_shows_by_link
                 THEN IF DatesDiffer(new_dates, old_shows_by_link[normalized].dates)
                      THEN [acc EXCEPT !.changed = Append(@, new_show),
                                       !.seen_in_result = seen]
                      ELSE [acc EXCEPT !.unchanged = Append(@, new_show),
                                       !.seen_in_result = seen]
                 ELSE [acc EXCEPT !.new = Append(@, new_show),
                                  !.seen_in_result = seen]

RECURSIVE ClassifyAll(_, _, _)
ClassifyAll(items, old_shows_by_link, acc) ==
    IF items = <<>> THEN acc
    ELSE ClassifyAll(Tail(items), old_shows_by_link,
                     ClassifyItem(Head(items), old_shows_by_link, acc))

EmptyLookup == [k \in {} |-> NoLink]

NoChanges == [new |-> <<>>, changed |-> <<>>, unchanged |-> <<>>]

find_changed_shows(o, n) ==
    LET r == ClassifyAll(n, OldShowsByLink(o, EmptyLookup),
                 [new |-> <<>>, changed |-> <<>>, unchanged |-> <<>>,
                  seen_in_result |-> {}])
    IN  [new |-> r.new, changed |-> r.changed, unchanged |-> r.unchanged]

\* An iteration that does not look at `seen`.
DedupeItemNoSeen(s, acc) ==
    LET link == extract_link(s)
    IN  IF Falsy(link) THEN acc
        ELSE LET normalized == Normalize(link)
             IN  IF _is_afisha_path(link) \/ _is_afisha_path(normalized) THEN acc
                 ELSE [seen |-> acc.seen \cup {normalized},
                       result |-> Append(acc.result, normalized)]

\* An iteration that moves a link seen before to the end of the result.
DedupeItemLastWins(s, acc) ==
    LET link == extract_link(s)
    IN  IF Falsy(link) THEN acc
        ELSE LET normalized == Normalize(link)
                 others == SelectSeq(acc.result, LAMBDA l : l # normalized)
             IN  IF _is_afisha_path(link) \/ _is_afisha_path(normalized) THEN acc
                 ELSE [seen |-> acc.seen \cup {normalized},
                       result |-> Append(others, normalized)]

\* One iteration of the loop of _dedupe_normalize_filter_to_links.
DedupeItem(s, acc) ==
    LET link == extract_link(s)
    IN  IF Falsy(link) THEN acc
        ELSE LET normalized == Normalize(link)
             IN  IF _is_afisha_path(link) \/ _is_afisha_path(normalized) THEN acc
                 ELSE IF normalized \in acc.seen THEN acc
                 ELSE [seen |-> acc.seen \cup {normalized},
                       result |-> Append(acc.result, normalized)]

\* A loop that ends at the first entry without a link instead of skipping it.
RECURSIVE DedupeAllUntilNoLink(_, _)
DedupeAllUntilNoLink(shows, acc) ==
    IF shows = <<>> \/ Falsy(extract_link(Head(shows))) THEN acc
    ELSE DedupeAllUntilNoLink(Tail(shows), DedupeItem(Head(shows), acc))

RECURSIVE DedupeAll(_, _)
DedupeAll(shows, acc) ==
    IF shows = <<>> THEN acc
    ELSE DedupeAll(Tail(shows), DedupeItem(Head(shows), acc))

_dedupe_normalize_filter_to_links(shows) ==
    DedupeAll(shows, [seen |-> {}, result |-> <<>>]).result

(***************************************************************************)
(* Text and send_telegram_message                                          *)
(***************************************************************************)

\* A line of text: `lead` blanks, a core of `core` characters that starts and
\* ends with a non-blank one (txt names its content), `trail` blanks.  A
\* blank line has no core and counts its blanks in `lead`.  A text is a
\* non-empty sequence of lines joined by "\n"; "" is one empty line.
Line(txt, lead, core, trail) == [txt |-> txt, lead |-> lead, core |-> core, trail |-> trail]

TextLine(txt) == Line(txt, 0, Len(txt), 0)

EmptyLine == Line("", 0, 0, 0)

EmptyText == <<EmptyLine>>

LineLen(l) == l.lead + l.core + l.trail

RECURSIVE SumLen(_)
SumLen(ls) == IF ls = <<>> THEN 0 ELSE LineLen(Head(ls)) + SumLen(Tail(ls))

\* len(text)
TextLen(text) == SumLen(text) + (Len(text) - 1)

\* len(current_message), every line of which is followed by "\n"
BufferLen(ls) == SumLen(ls) + Len(ls)

IsBlank(l) == l.core = 0

RECURSIVE DropLeadingBlank(_)
DropLeadingBlank(ls) ==
    IF ls = <<>> THEN <<>>
    ELSE IF IsBlank(Head(ls)) THEN DropLeadingBlank(Tail(ls))
    ELSE <<[Head(ls) EXCEPT !.lead = 0]>> \o Tail(ls)

RECURSIVE DropTrailingBlank(_)
DropTrailingBlank(ls) ==
    IF ls = <<>> THEN <<>>
    ELSE IF IsBlank(ls[Len(ls)]) THEN DropTrailingBlank(SubSeq(ls, 1, Len(ls) - 1))
    ELSE SubSeq(ls, 1, Len(ls) - 1) \o <<[ls[Len(ls)] EXCEPT !.trail = 0]>>

\* current_message.strip(): the text of the buffered lines without the
\* whitespace (blanks and newlines) at its start and at its end.
StripBuffer(ls) ==
    LET r == DropTrailingBlank(DropLeadingBlank(ls))
    IN  IF r = <<>> THEN EmptyText ELSE r

MAX_MESSAGE_LENGTH == 4000

\* The buffer after the line that did not fit: a buffer that loses it.
StartBufferEmpty(line) == <<>>

\* current_message = line + '\n'
StartBuffer(line) == <<line>>

\* The loop over the lines of a message that is too long; acc holds
\* `messages` and `current_message`.
RECURSIVE SplitLines(_, _)
SplitLines(lines, acc) ==
    IF lines = <<>>
    THEN IF acc.current # <<>>
         THEN Append(acc.messages, StripBuffer(acc.current))
         ELSE acc.messages
    ELSE LET line == Head(lines)
         IN  IF BufferLen(acc.current) + LineLen(line) + 1 > MAX_MESSAGE_LENGTH
             THEN SplitLines(Tail(lines),
                      [messages |-> IF acc.current # <<>>
                                    THEN Append(acc.messages, StripBuffer(acc.current))
                                    ELSE acc.messages,
                       current |-> StartBuffer(line)])
             ELSE SplitLines(Tail(lines),
                      [messages |-> acc.messages,
                       current |-> Append(acc.current, line)])

\* The parts of a message, before their headers.
MessageParts(msg) ==
    IF TextLen(msg) > MAX_MESSAGE_LENGTH
    THEN SplitLines(msg, [messages |-> <<>>, current |-> <<>>])
    ELSE <<msg>>

\* f"Part {i+1}/{len(messages)}:"
PartHeader(i, n) == TextLine("Part " \o ToString(i) \o "/" \o ToString(n) \o ":")

\* The text of part i as it is posted.
PartText(parts, i) ==
    IF Len(parts) > 1 THEN <<PartHeader(i, Len(parts))>> \o parts[i] ELSE parts[i]

\* chat_id.strip() of an id made of digits or of blanks
StripChatId(chat_id) == IF chat_id = " " THEN "" ELSE chat_id

\* The recipients the loop does not skip.
Recipients(ids) ==
    SelectSeq([i \in DOMAIN ids |-> StripChatId(ids[i])], LAMBDA c : c # "")

\* The requests of one call: for each recipient, each part in order.
RECURSIVE Requests(_, _)
Requests(recipients, parts) ==
    IF recipients = <<>> THEN <<>>
    ELSE [i \in DOMAIN parts |->
             [chat_id |-> Head(recipients), text |-> PartText(parts, i)]]
         \o Requests(Tail(recipients), parts)

\* A send that gives up at the first request that fails.
send_telegram_message_until_failure(msg, ids, failing) ==
    LET reqs == Requests(Recipients(ids), MessageParts(msg))
        bad == failing \cap DOMAIN reqs
        last == IF bad = {} THEN Len(reqs)
                ELSE CHOOSE i \in bad : \A j \in bad : i <= j
    IN  [requests |-> SubSeq(reqs, 1, last), success |-> bad = {}]

\* send_telegram_message(msg) with the requests at the positions `failing`
\* answered by a response that is not ok or by an exception: the requests
\* made and the value returned.
send_telegram_message(msg, ids, failing) ==
    LET reqs == Requests(Recipients(ids), MessageParts(msg))
    IN  [requests |-> reqs, success |-> failing \cap DOMAIN reqs = {}]

(***************************************************************************)
(* Date texts and get_shows_with_retry                                     *)
(***************************************************************************)

\* RU_MONTH_TO_MM: the genitive Russian month names, lower-case and
\* title-case, written here in Latin letters.
RU_MONTH_TO_MM ==
    ("yanvarya" :> "01") @@ ("fevralya" :> "02") @@ ("marta" :> "03")
    @@ ("aprelya" :> "04") @@ ("maya" :> "05") @@ ("iyunya" :> "06")
    @@ ("iyulya" :> "07") @@ ("avgusta" :> "08") @@ ("sentyabrya" :> "09")
    @@ ("oktyabrya" :> "10") @@ ("noyabrya" :> "11") @@ ("dekabrya" :> "12")
    @@ ("Yanvarya" :> "01") @@ ("Fevralya" :> "02") @@ ("Marta" :> "03")
    @@ ("Aprelya" :> "04") @@ ("Maya" :> "05") @@ ("Iyunya" :> "06")
    @@ ("Iyulya" :> "07") @@ ("Avgusta" :> "08") @@ ("Sentyabrya" :> "09")
    @@ ("Oktyabrya" :> "10") @@ ("Noyabrya" :> "11") @@ ("Dekabrya" :> "12")

\* datetime.utcnow().year
UtcYear == 2025

\* The characters \d, \s and the letter class of the pattern tell apart.  The
\* Cyrillic letters of the source are written here by their Latin
\* transliteration, which the letter class A-Za-z accepts just as well.
Digits == {"0", "1", "2", "3", "4", "5", "6", "7", "8", "9"}
Spaces == {" ", "	"}
LowerLetters ==
    {"a", "b", "c", "d", "e", "f", "g", "h", "i", "j", "k", "l", "m",
     "n", "o", "p", "q", "r", "s", "t", "u", "v", "w", "x", "y", "z"}
UpperLetters ==
    {"A", "B", "C", "D", "E", "F", "G", "H", "I", "J", "K", "L", "M",
     "N", "O", "P", "Q", "R", "S", "T", "U", "V", "W", "X", "Y", "Z"}
Letters == LowerLetters \cup UpperLetters

\* The character at position i of a text ("" past its end).
CharAt(text, i) == IF i \in 1..Len(text) THEN SubSeq(text, i, i) ELSE ""

\* int() of a run of digits.
DigitValue(c) ==
    CASE c = "0" -> 0 [] c = "1" -> 1 [] c = "2" -> 2 [] c = "3" -> 3
      [] c = "4" -> 4 [] c = "5" -> 5 [] c = "6" -> 6 [] c = "7" -> 7
      [] c = "8" -> 8 [] c = "9" -> 9
RECURSIVE IntOf(_)
IntOf(digits) ==
    IF digits = "" THEN 0
    ELSE 10 * IntOf(SubSeq(digits, 1, Len(digits) - 1))
         + DigitValue(CharAt(digits, Len(digits)))

\* The end of the longest run of characters of a class that starts at i
\* (i - 1 when the character at i is not of the class).
RECURSIVE RunEnd(_, _, _)
RunEnd(text, i, class) ==
    IF CharAt(text, i) \in class THEN RunEnd(text, i + 1, class) ELSE i - 1

\* A match of the pattern: the number of group 1 and the word of group 2.
DateText(day, word) == [matched |-> TRUE, day |-> day, word |-> word]
NoMatchText == [matched |-> FALSE, day |-> 0, word |-> ""]

\* (\d{1,2})\s+([letters]+) tried at position i: two digits before one, then
\* at least one blank, then the longest run of letters, at least one.
MatchAt(text, i) ==
    LET TryDigits(k) ==
            LET blanks == RunEnd(text, i + k, Spaces)
                word == RunEnd(text, blanks + 1, Letters)
            IN  IF /\ \A j \in i..(i + k - 1) : CharAt(text, j) \in Digits
                   /\ blanks >= i + k
                   /\ word >= blanks + 1
                THEN DateText(IntOf(SubSeq(text, i, i + k - 1)),
                              SubSeq(text, blanks + 1, word))
                ELSE NoMatchText
    IN  IF TryDigits(2).matched THEN TryDigits(2) ELSE TryDigits(1)

\* re.search: the match at the leftmost position that has one.
RECURSIVE SearchFrom(_, _)
SearchFrom(text, i) ==
    IF i > Len(text) THEN NoMatchText
    ELSE IF MatchAt(text, i).matched THEN MatchAt(text, i)
    ELSE SearchFrom(text, i + 1)
ReSearch(text) == SearchFrom(text, 1)

\* f"{day:02d}"
Pad2NoZero(n) == ToString(n)
Pad2(n) == IF n < 10 THEN "0" \o ToString(n) ELSE ToString(n)

\* `text or ""` makes None the empty text; anything that raises inside the
\* try block (a text that is not a string) returns "" as well.
NotAString == "<5>"
_parse_ru_date_text_to_ddmmyyyy(text) ==
    IF text \in {NoLink, NotAString} THEN ""
    ELSE LET m == ReSearch(text)
         IN  IF ~m.matched THEN ""
             ELSE IF m.word \notin DOMAIN RU_MONTH_TO_MM THEN ""
             ELSE Pad2(m.day) \o "." \o RU_MONTH_TO_MM[m.word] \o "."
                  \o ToString(UtcYear)

\* The loop over the date texts of a show page.
RECURSIVE ParsedDates(_, _)
ParsedDates(date_texts, parsed_dates) ==
    IF date_texts = <<>> THEN parsed_dates
    ELSE LET ddmmyyyy == _parse_ru_date_text_to_ddmmyyyy(Head(date_texts))
         IN  ParsedDates(Tail(date_texts),
                 IF ddmmyyyy # "" /\ ddmmyyyy \notin ToSet(parsed_dates)
                 THEN Append(parsed_dates, ddmmyyyy)
                 ELSE parsed_dates)

\* The result of an attempt of get_shows_with_retry that loads the listing:
\* the links found on it, made unique, each with the dates of its page
\* (pages[i] holds the date texts of the i-th unique link).
Enriched(shows, pages) ==
    LET unique_links == _dedupe_normalize_filter_to_links(
                            [i \in DOMAIN shows |-> Str(shows[i])])
    IN  [i \in DOMAIN unique_links |->
            Dict(unique_links[i], ParsedDates(pages[i], <<>>))]

(***************************************************************************)
(* The notification of afisha.main                                         *)
(***************************************************************************)

\* datetime.now().strftime('%Y-%m-%d %H:%M:%S'), by its shape
Timestamp == "YYYY-MM-DD HH:MM:SS"

\* "* link (d1, d2)" or "* link"; "*" stands for the bullet character.
BulletLine(show) ==
    IF show.dates # <<>>
    THEN TextLine("* " \o show.link \o " (" \o JoinStr(show.dates, ", ") \o ")")
    ELSE TextLine("* " \o show.link)

\* A group is listed in full up to this size.
ListAllLimit == 10
\* The number of entities a longer group lists.
ListFirst == 5

\* The limit of the full listing taken for the number listed of a longer group.
ShownOfLongOff(shows) == SubSeq(shows, 1, ListAllLimit)

\* shows[:5]
ShownOfLong(shows) == SubSeq(shows, 1, ListFirst)

\* The message of one category; `what` and `whats` word its header.
GroupMessage(shows, icon, what, whats) ==
    IF Len(shows) <= ListAllLimit
    THEN <<TextLine(icon \o " " \o what \o " at " \o Timestamp \o ":"), EmptyLine>>
         \o [i \in DOMAIN shows |-> BulletLine(shows[i])]
    ELSE LET first_shows == ShownOfLong(shows)
             remaining_count == Len(shows) - ListFirst
         IN  <<TextLine(icon \o " " \o ToString(Len(shows)) \o " " \o whats
                        \o " at " \o Timestamp \o ":"), EmptyLine>>
             \o [i \in DOMAIN first_shows |-> BulletLine(first_shows[i])]
             \o <<EmptyLine,
                  TextLine("... and " \o ToString(remaining_count) \o " more shows")>>

NewShowsMessage(new_shows) ==
    GroupMessage(new_shows, "#", "New shows added", "new shows added")

ChangedShowsMessage(changed_shows) ==
    GroupMessage(changed_shows, "@", "Show dates updated", "show dates updated")

\* "\n\n".join(messages)
CombinedMessage(new_shows, changed_shows) ==
    LET messages == (IF new_shows # <<>> THEN <<NewShowsMessage(new_shows)>> ELSE <<>>)
                    \o (IF changed_shows # <<>>
                        THEN <<ChangedShowsMessage(changed_shows)>> ELSE <<>>)
    IN  IF Len(messages) = 2 THEN messages[1] \o <<EmptyLine>> \o messages[2]
        ELSE messages[1]

(***************************************************************************)
(* The snapshot files                                                      *)
(***************************************************************************)

\* A snapshot file: absent, holding the JSON text of `data`, or holding text
\* that is not JSON (what a dump that fails half-way leaves).
AbsentFile == [status |-> "absent", data |-> <<>>]
JsonFile(data) == [status |-> "json", data |-> data]
CorruptFile == [status |-> "corrupt", data |-> <<>>]

\* The outcomes of open(..., "w") followed by json.dump.
WriteOutcomes == {"ok", "open-failed", "dump-failed"}

\* The file after an attempt to write `data` over `file`.
Written(file, data, how) ==
    CASE how = "ok" -> JsonFile(data)
      [] how = "open-failed" -> file
      [] OTHER -> CorruptFile

\* How load_previous_shows and load_previous_seats end: the file is missing,
\* it was read, or reading it raised, which the function logs.
LoadEnd(file) ==
    CASE file.status = "absent" -> "missing"
      [] file.status = "json" -> "read"
      [] OTHER -> "read-error"

load_previous_shows(file) == IF file.status = "json" THEN file.data ELSE <<>>

\* The list save_shows writes.
enriched_shows(shows) ==
    IF shows # <<>> /\ shows[1].type = "dict" /\ shows[1].link # NoLink
    THEN shows
    ELSE LET clean_links == _dedupe_normalize_filter_to_links(shows)
         IN  [i \in DOMAIN clean_links |-> Dict(clean_links[i], <<>>)]

save_shows(file, shows, how) == Written(file, enriched_shows(shows), how)

\* {} of Python
EmptyDict == <<>>

load_previous_seats(file) == IF file.status = "json" THEN file.data ELSE EmptyDict

\* A save that keeps the entries of the file that `seats` has no key for.
save_seats_merged(file, seats, how) ==
    LET kept == load_previous_seats(file)
        keys == DOMAIN kept \cup DOMAIN seats
    IN  Written(file,
                IF keys = {} THEN EmptyDict
                ELSE [url \in keys |-> IF url \in DOMAIN seats THEN seats[url]
                                       ELSE kept[url]],
                how)
save_seats(file, seats, how) == Written(file, seats, how)

(***************************************************************************)
(* Seat pages and check_tickets_for_show                                   *)
(***************************************************************************)

\* The word that marks the title of a seat on sale, in Latin letters.
PriceWord == "Tsena"

\* sub in text
Contains(text, sub) ==
    \E i \in 1..(Len(text) - Len(sub) + 1) : SubSeq(text, i, i + Len(sub) - 1) = sub

\* title_attr and "<price word>" in title_attr
OnSale(title_attr) == title_attr # "" /\ Contains(title_attr, PriceWord)

\* The data of a ticket page whose seat cells carry the titles `seats`.
show_data(url, title, seats) ==
    LET available == SelectSeq(seats, OnSale)
    IN  [title |-> title, url |-> url, available_seats |-> available,
         count |-> Len(available)]

(***************************************************************************)
(* The notification of tickets.main                                        *)
(***************************************************************************)

\* previous_seats.get(url, {"count": 0, "available_seats": []})
previous_data(previous, url) ==
    IF url \in DOMAIN previous THEN previous[url]
    ELSE [count |-> 0, available_seats |-> <<>>]

\* A url is notified also when its count did not change.
CountIncreasedOrSame(current_data, prev_data) == current_data.count >= prev_data.count

\* current_data["count"] > previous_data["count"]
CountIncreased(current_data, prev_data) == current_data.count > prev_data.count

\* The orders in which a set can be iterated.
Orderings(S) ==
    {q \in [1..Cardinality(S) -> S] : \A i, j \in 1..Cardinality(S) : q[i] = q[j] => i = j}

\* The number of new seats listed in full, and listed of a longer set.
SeatListLimit == 5

\* The message about the new seats of a url; new_seats is the set of new
\* seats in the order of its iteration.
SeatsMessage(url, current_data, new_seats) ==
    LET head == <<TextLine("T Found new tickets for " \o current_data.title
                           \o " - " \o url),
                  TextLine("New seats: " \o ToString(Len(new_seats))),
                  TextLine("Total available: " \o ToString(current_data.count)),
                  EmptyLine>>
        shown == IF Len(new_seats) <= SeatListLimit THEN new_seats
                 ELSE SubSeq(new_seats, 1, SeatListLimit)
        seat_list == IF shown = <<>> THEN <<EmptyLine>>
                     ELSE [i \in DOMAIN shown |-> TextLine("* " \o shown[i])]
    IN  IF Len(new_seats) <= SeatListLimit
        THEN head \o <<TextLine("New seats:")>> \o seat_list
        ELSE head \o <<TextLine("First 5 new seats:")>> \o seat_list
             \o <<EmptyLine,
                  TextLine("... and " \o ToString(Len(new_seats) - SeatListLimit)
                           \o " more seats")>>

\* The messages one url can give rise to: none, or one for each order of the
\* set of its new seats.
UrlMessages(url, previous, current) ==
    LET current_data == current[url]
        prev_data == previous_data(previous, url)
        new_seats == ToSet(current_data.available_seats)
                     \ ToSet(prev_data.available_seats)
    IN  IF CountIncreased(current_data, prev_data)
        THEN {<<SeatsMessage(url, current_data, q)>> : q \in Orderings(new_seats)}
        ELSE {<<>>}

\* The sequences of messages the loop over current_seats.items() can send;
\* urls lists the keys of current_seats in the order they were inserted.
RECURSIVE SeatMessages(_, _, _)
SeatMessages(urls, previous, current) ==
    IF urls = <<>> THEN {<<>>}
    ELSE {m \o rest : m \in UrlMessages(Head(urls), previous, current),
                      rest \in SeatMessages(Tail(urls), previous, current)}

(***************************************************************************)
(* Inputs of the pure functions                                            *)
(***************************************************************************)

MaxOld == 2
MaxNew == 2

D1 == "01.01.2025"
D2 == "02.01.2025"

OldItems ==
    { Str(LinkStr(ListingRaw)),
      Dict(LinkStr(ShowRel), <<D1, D2>>),
      Dict(LinkStr(ShowAbs), <<D1>>),
      Str(LinkStr(TicketAbs)) }

NewItems ==
    { Str(LinkStr(ListingRaw)),
      Str(LinkStr(ListingRawPadded)),
      Str(LinkStr(ListingRelSlash)),
      Dict(LinkStr(ListingAbs), <<D1>>),
      Dict(LinkStr(ListingAbsSlash), <<D1>>),
      Dict(LinkStr(ShowRel), <<D1, D2>>),
      Dict(LinkStr(ShowAbs), <<D2, D1>>),
      Dict(LinkStr(ShowAbs), <<D1, D1>>),
      Dict(LinkStr(ShowAbs), <<D2>>),
      Str(LinkStr(TicketAbs)),
      DictNoDates(LinkStr(TicketAbs)),
      Str(LinkStr(FtpAbs)),
      Null }

\* A date text of a show page by its parts: what precedes the day number,
\* the day number, the blanks after it, the word after them and the rest.
\* kind tells a string from None and from a value that is not a string.
TextParts(kind, pre, day, sep, word, suf) ==
    [kind |-> kind, pre |-> pre, day |-> day, sep |-> sep, word |-> word,
     suf |-> suf]
NoText == TextParts("str", "", "", "", "", "")
TextOf(t) ==
    CASE t.kind = "none" -> NoLink
      [] t.kind = "int" -> NotAString
      [] OTHER -> t.pre \o t.day \o t.sep \o t.word \o t.suf

(***************************************************************************)
(* The variables a specification does not use                              *)
(***************************************************************************)

\* No call of a retry loop is under way.
NoCall == [fn |-> "none", max_retries |-> 0, attempt |-> 0, pc |-> "idle",
           log |-> <<>>, result |-> "none"]
IdleCall == call = NoCall /\ stable = <<>>

IdleDiff == old = <<>> /\ new = <<>> /\ links = <<>>
IdleSend == message = EmptyText /\ success = TRUE /\ failed = {}
IdleDates == date_text = NoText /\ parsed = ""
IdleSeats ==
    /\ tickets_cache_file = AbsentFile
    /\ ticket_urls = <<>>
    /\ out = EmptyDict
    /\ seats_out_file = AbsentFile
IdleRun ==
    /\ shows_file = AbsentFile
    /\ seats_file = AbsentFile
    /\ program = "none"
    /\ loaded = "none"
    /\ previous_shows = <<>>
    /\ current_shows = <<>>
    /\ previous_seats = EmptyDict
    /\ current_seats = EmptyDict
    /\ sent = <<>>
    /\ saved = <<>>
    /\ write = "none"
    /\ outcome = "none"

(***************************************************************************)
(* Spec: find_changed_shows and _dedupe_normalize_filter_to_links applied  *)
(* to bounded show lists                                                   *)
(***************************************************************************)

Init ==
    /\ old \in SeqsUpTo(OldItems, MaxOld)
    /\ new \in SeqsUpTo(NewItems, MaxNew)
    /\ changes = NoChanges
    /\ links = <<>>
    /\ done = {}
    /\ chat_ids = <<"111">>
    /\ enabled = "true"
    /\ posted = <<>>
    /\ IdleSend
    /\ IdleRun
    /\ IdleDates
    /\ IdleSeats
    /\ IdleCall

FindChangedShows ==
    /\ "find_changed_shows" \notin done
    /\ changes' = find_changed_shows(old, new)
    /\ done' = done \cup {"find_changed_shows"}
    /\ UNCHANGED <<callVars, histVars, diffVars, sendVars, envVars, dateVars, seatVars, runVars, posted>>

DedupeNormalizeFilter ==
    /\ "dedupe" \notin done
    /\ links' = _dedupe_normalize_filter_to_links(new)
    /\ done' = done \cup {"dedupe"}
    /\ UNCHANGED <<callVars, histVars, old, new, changes, sendVars, envVars, dateVars, seatVars, runVars, posted>>

Next == FindChangedShows \/ DedupeNormalizeFilter

Spec == Init /\ [][Next]_vars

(***************************************************************************)
(* SpecSend: send_telegram_message applied to bounded messages             *)
(***************************************************************************)

MaxLines == 3

LineShapes ==
    { EmptyLine,
      Line("", 3, 0, 0),
      TextLine("hello"),
      Line("x", 2, 1, 2),
      Line("half", 0, 1995, 0),
      Line("long", 0, 3990, 0),
      Line("oversize", 0, 4001, 0) }

\* Values of CHAT_IDS that pass the check at import: some entry is not empty.
ChatConfigs == { <<"111">>, <<"111", " ", "222">>, <<"", "222">> }

InitSend ==
    /\ message \in SeqsUpTo(LineShapes, MaxLines) \ {<<>>}
    /\ chat_ids \in ChatConfigs
    /\ posted = <<>>
    /\ success = TRUE
    /\ failed = {}
    /\ done = {}
    /\ changes = NoChanges
    /\ enabled = "true"
    /\ IdleDiff
    /\ IdleRun
    /\ IdleDates
    /\ IdleSeats
    /\ IdleCall

SendTelegramMessage ==
    /\ "send_telegram_message" \notin done
    /\ \E failing \in SUBSET (1..Len(Requests(Recipients(chat_ids), MessageParts(message)))) :
           LET r == send_telegram_message(message, chat_ids, failing)
           IN  posted' = r.requests /\ success' = r.success /\ failed' = failing
    /\ done' = done \cup {"send_telegram_message"}
    /\ UNCHANGED <<callVars, histVars, diffVars, changes, message, envVars, dateVars, seatVars, runVars>>

SpecSend == InitSend /\ [][SendTelegramMessage]_vars

(***************************************************************************)
(* SpecCompose: the notification of afisha.main composed for bounded       *)
(* groups of new and changed shows                                         *)
(***************************************************************************)

MaxGroup == 12

\* Show i of a group; every other one has no dates.
GroupShow(kind, i) ==
    Dict(AFISHA_BASE \o "/spektakli/" \o kind \o "/" \o ToString(i),
         IF i % 2 = 1 THEN <<D1, D2>> ELSE <<>>)

Group(kind, n) == [i \in 1..n |-> GroupShow(kind, i)]

InitCompose ==
    /\ changes \in {[new |-> Group("new", n), changed |-> Group("changed", m),
                     unchanged |-> <<>>] :
                        n \in 0..MaxGroup, m \in 0..MaxGroup} \ {NoChanges}
    /\ message = EmptyText
    /\ chat_ids = <<"111">>
    /\ posted = <<>>
    /\ success = TRUE
    /\ failed = {}
    /\ done = {}
    /\ enabled = "true"
    /\ IdleDiff
    /\ IdleRun
    /\ IdleDates
    /\ IdleSeats
    /\ IdleCall

ComposeMessage ==
    /\ "compose" \notin done
    /\ message' = CombinedMessage(changes.new, changes.changed)
    /\ done' = done \cup {"compose"}
    /\ UNCHANGED <<callVars, histVars, diffVars, changes, success, failed, posted, envVars, dateVars, seatVars, runVars>>

SpecCompose == InitCompose /\ [][ComposeMessage]_vars

(***************************************************************************)
(* afisha.main and tickets.main                                            *)
(***************************************************************************)

\* not previous_shows
NoPreviousShowsNever(previous) == FALSE
NoPreviousShows(previous) == previous = <<>>

\* not previous_seats
NoPreviousSeatsNever(previous) == FALSE
NoPreviousSeats(previous) == previous = EmptyDict

\* prev_norm != curr_norm, never found to hold
KeySetsDifferNever(prev_norm, curr_norm) == FALSE
\* prev_norm != curr_norm, found to hold of every pair
KeySetsDifferAlways(prev_norm, curr_norm) == TRUE
\* prev_norm != curr_norm
KeySetsDiffer(prev_norm, curr_norm) == prev_norm # curr_norm

\* What an exception of get_shows_with_retry or check_all_shows says.
TimeoutText == "Timeout or error loading page: Page returned status 503"
LaunchFailureText == "BrowserType.launch: Executable doesn't exist"

\* "Timeout or error loading page" in str(e) or "Target page, context or
\* browser has been closed" in str(e) or "Timeout" in str(e)
Suppressed(text) ==
    \/ Contains(text, "Timeout or error loading page")
    \/ Contains(text, "Target page, context or browser has been closed")
    \/ Contains(text, "Timeout")

\* What get_shows_with_retry does: it returns a list or raises.
Returned(shows) == [raised |-> FALSE, shows |-> shows, text |-> ""]
Raised(text) == [raised |-> TRUE, shows |-> <<>>, text |-> text]

\* A run that writes what the scrape left also when the scrape raised.
afisha_main_saving_after_failure(file, scrape, how) ==
    [file |-> save_shows(file, scrape.shows, how), loaded |-> LoadEnd(file),
     previous_shows |-> load_previous_shows(file),
     current_shows |-> scrape.shows, changes |-> NoChanges,
     sent |-> <<>>, saved |-> <<scrape.shows>>, write |-> how,
     outcome |-> IF scrape.raised THEN "scrape-failed" ELSE "first-run"]

\* One run of afisha.main on the snapshot file `file`: the file and the
\* locals when it returns.
afisha_main(file, scrape, how) ==
    LET previous == load_previous_shows(file)
        quiet == [file |-> file, loaded |-> LoadEnd(file),
                  previous_shows |-> previous,
                  current_shows |-> scrape.shows, changes |-> NoChanges,
                  sent |-> <<>>, saved |-> <<>>, write |-> "none",
                  outcome |-> "no-op"]
        saving == [quiet EXCEPT !.file = save_shows(file, scrape.shows, how),
                                !.saved = <<scrape.shows>>,
                                !.write = how]
    IN  IF scrape.raised
        THEN IF Suppressed(scrape.text)
             THEN [quiet EXCEPT !.outcome = "scrape-failed"]
             ELSE [quiet EXCEPT
                      !.sent = <<<<TextLine("Error checking shows: " \o scrape.text)>>>>,
                      !.outcome = "scrape-error"]
        ELSE IF NoPreviousShows(previous)
        THEN [saving EXCEPT !.outcome = "first-run"]
        ELSE LET diff == find_changed_shows(previous, scrape.shows)
             IN  IF diff.new # <<>> \/ diff.changed # <<>>
                 THEN [saving EXCEPT
                          !.changes = diff,
                          !.sent = <<CombinedMessage(diff.new, diff.changed)>>,
                          !.outcome = "notified"]
                 ELSE LET prev_norm == ToSet(_dedupe_normalize_filter_to_links(previous))
                          curr_norm == ToSet(_dedupe_normalize_filter_to_links(scrape.shows))
                      IN  IF KeySetsDiffer(prev_norm, curr_norm)
                          THEN [saving EXCEPT !.changes = diff,
                                              !.outcome = "list-changed"]
                          ELSE [quiet EXCEPT !.changes = diff]

\* The requests of the calls of send_telegram_message with the messages
\* `msgs`; main does not look at what the calls return.
RECURSIVE PostedFor(_, _)
PostedFor(msgs, ids) ==
    IF msgs = <<>> THEN <<>>
    ELSE send_telegram_message(Head(msgs), ids, {}).requests \o PostedFor(Tail(msgs), ids)

\* The keys of a seat snapshot in the order check_all_shows inserted them:
\* that of sorted(all_ticket_urls).
RECURSIVE SortedKeys(_, _)
SortedKeys(urls, current) ==
    IF urls = <<>> THEN <<>>
    ELSE (IF Head(urls) \in DOMAIN current THEN <<Head(urls)>> ELSE <<>>)
         \o SortedKeys(Tail(urls), current)

\* str.lower, str.upper and str.title of a word of letters.
LowerAlphabet == "abcdefghijklmnopqrstuvwxyz"
UpperAlphabet == "ABCDEFGHIJKLMNOPQRSTUVWXYZ"
AlphabetIndex(alphabet, c) == CHOOSE i \in 1..26 : CharAt(alphabet, i) = c
LowerChar(c) ==
    IF c \in UpperLetters THEN CharAt(LowerAlphabet, AlphabetIndex(UpperAlphabet, c))
    ELSE c
UpperChar(c) ==
    IF c \in LowerLetters THEN CharAt(UpperAlphabet, AlphabetIndex(LowerAlphabet, c))
    ELSE c
RECURSIVE ToLower(_)
ToLower(word) ==
    IF word = "" THEN ""
    ELSE LowerChar(CharAt(word, 1)) \o ToLower(SubSeq(word, 2, Len(word)))
RECURSIVE ToUpper(_)
ToUpper(word) ==
    IF word = "" THEN ""
    ELSE UpperChar(CharAt(word, 1)) \o ToUpper(SubSeq(word, 2, Len(word)))
Title(word) ==
    IF word = "" THEN ""
    ELSE UpperChar(CharAt(word, 1)) \o ToLower(SubSeq(word, 2, Len(word)))
\* A mixed capitalization: the second letter in upper case, the rest in lower.
Mixed(word) ==
    IF Len(word) < 2 THEN ToLower(word)
    ELSE LowerChar(CharAt(word, 1)) \o UpperChar(CharAt(word, 2))
         \o ToLower(SubSeq(word, 3, Len(word)))

\* An environment variable that is not set.
EnvUnset == "<unset>"

\* A reading of the flag that is on unless it is set to something else.
AfishaCheckEnabledByDefault(value) ==
    ToLower(IF value = EnvUnset THEN "true" ELSE value) \in {"1", "true", "yes"}

\* os.getenv("AFISHA_CHECK_ENABLED", "false").lower() in ("1", "true", "yes")
AfishaCheckEnabled(value) ==
    ToLower(IF value = EnvUnset THEN "false" ELSE value) \in {"1", "true", "yes"}

\* One run of tickets.main on the snapshot file `file` that sends `msgs` in
\* its loop: the file and the locals when it returns.
tickets_main(file, on, check, msgs, how) ==
    LET previous == load_previous_seats(file)
        quiet == [file |-> file, loaded |-> LoadEnd(file),
                  previous_seats |-> previous,
                  current_seats |-> check.shows, sent |-> <<>>, saved |-> <<>>,
                  write |-> "none", outcome |-> "disabled"]
        saving == [quiet EXCEPT !.file = save_seats(file, check.shows, how),
                                !.saved = <<check.shows>>,
                                !.write = how]
    IN  IF ~on
        THEN [quiet EXCEPT !.loaded = "none", !.previous_seats = EmptyDict,
                           !.current_seats = EmptyDict]
        ELSE IF check.raised
        THEN [quiet EXCEPT
                 !.sent = <<<<TextLine("Error checking tickets: " \o check.text)>>>>,
                 !.outcome = "check-error"]
        ELSE IF NoPreviousSeats(previous)
        THEN [saving EXCEPT !.outcome = "first-run"]
        ELSE [saving EXCEPT !.sent = msgs, !.outcome = "checked"]

(***************************************************************************)
(* SpecRuns: runs of afisha.main and of tickets.main, in any order, from   *)
(* the state without snapshot files                                        *)
(***************************************************************************)

MaxHrefs == 2
MaxSeats == 2

\* The hrefs the listing page can carry.
RawHrefs ==
    { LinkStr(ListingRaw), LinkStr(ShowRel), LinkStr(ShowAbs), LinkStr(TicketAbs) }

\* The date texts a show page can carry.
PageTexts ==
    { <<"1 yanvarya, Sreda, 11:00", "7 yanv">>,
      <<"2 Yanvarya", "Sreda", "1 yanvarya", "2 yanvarya, 18:00">> }

\* What get_shows_with_retry can return or raise.
ShowScrapes ==
    {Returned(Enriched(shows, pages)) :
        shows \in SeqsUpTo(RawHrefs, MaxHrefs) \ {<<>>},
        pages \in [1..MaxHrefs -> PageTexts]}
    \cup {Raised(TimeoutText), Raised(LaunchFailureText)}

\* sorted(all_ticket_urls)
TicketUrls == <<"https://tce.by/shows.html?base=RkZD&data=3811",
                "https://tce.by/shows.html?base=RkZD&data=3812">>

\* The h1 of a ticket page, "Unknown Show" for a page without one.
TitleOf(url) == IF url = TicketUrls[1] THEN "Buratino" ELSE "Unknown Show"

\* The title attribute of seat i of a hall: the first seat is not on sale.
SeatTitle(i) ==
    "Ryad 1 Mesto " \o ToString(i) \o (IF i = 1 THEN "" ELSE " " \o PriceWord \o " 20")

\* The seat cells of a ticket page; without any, check_tickets_for_show
\* raises and check_all_shows skips the url.
Halls == {[i \in 1..n |-> SeatTitle(i)] : n \in 0..MaxSeats}

current_seats_of(pages) ==
    LET checked == {u \in ToSet(TicketUrls) : pages[u] # <<>>}
    IN  IF checked = {} THEN EmptyDict
        ELSE [u \in checked |-> show_data(u, TitleOf(u), pages[u])]

\* What check_all_shows can return or raise.
SeatChecks ==
    {Returned(current_seats_of(pages)) : pages \in [ToSet(TicketUrls) -> Halls]}
    \cup {Raised(LaunchFailureText)}

InitRuns ==
    /\ chat_ids = <<"111", " ", "222">>
    /\ enabled \in {EnvUnset, "true"}
    /\ changes = NoChanges
    /\ posted = <<>>
    /\ done = {}
    /\ IdleDiff
    /\ IdleSend
    /\ IdleRun
    /\ IdleDates
    /\ IdleSeats
    /\ IdleCall

AfishaMain ==
    \E scrape \in ShowScrapes :
        \E r \in {afisha_main(shows_file, scrape, how) : how \in WriteOutcomes} :
            /\ shows_file' = r.file
            /\ program' = "afisha"
            /\ loaded' = r.loaded
            /\ previous_shows' = r.previous_shows
            /\ current_shows' = r.current_shows
            /\ changes' = r.changes
            /\ sent' = r.sent
            /\ posted' = PostedFor(r.sent, chat_ids)
            /\ saved' = r.saved
            /\ write' = r.write
            /\ outcome' = r.outcome
            /\ previous_seats' = EmptyDict
            /\ current_seats' = EmptyDict
            /\ UNCHANGED <<callVars, histVars, seats_file, diffVars, sendVars, envVars, dateVars, seatVars, done>>

\* tickets.main, the history left aside.
TicketsRun ==
    \E check \in SeatChecks :
        \E msgs \in SeatMessages(SortedKeys(TicketUrls, check.shows),
                                 load_previous_seats(seats_file), check.shows) :
            \E r \in {tickets_main(seats_file, AfishaCheckEnabled(enabled), check, msgs, how) :
                          how \in WriteOutcomes} :
                /\ seats_file' = r.file
                /\ program' = "tickets"
                /\ loaded' = r.loaded
                /\ previous_seats' = r.previous_seats
                /\ current_seats' = r.current_seats
                /\ sent' = r.sent
                /\ posted' = PostedFor(r.sent, chat_ids)
                /\ saved' = r.saved
                /\ write' = r.write
                /\ outcome' = r.outcome
                /\ previous_shows' = <<>>
                /\ current_shows' = <<>>
                /\ changes' = NoChanges
                /\ UNCHANGED <<callVars, shows_file, diffVars, sendVars, envVars, dateVars, seatVars, done>>

TicketsMain == TicketsRun /\ UNCHANGED histVars

NextRuns == AfishaMain \/ TicketsMain

SpecRuns == InitRuns /\ [][NextRuns]_vars

(***************************************************************************)
(* Properties of find_changed_shows and _dedupe_normalize_filter_to_links  *)
(***************************************************************************)

Diffed == "find_changed_shows" \in done
Deduped == "dedupe" \in done

\* The normalized link of an entry, as a string.
KeyOf(entry) == Normalize(extract_link(entry))

\* The path of an http(s) link is "/afisha", trailing slashes ignored.
ListingPathLinks ==
    {link \in LinkStrs :
        LET u == urlparse[link]
        IN  /\ u.scheme \in {"http", "https"}
            /\ PathStr([u EXCEPT !.slashes = 0]) = "/afisha"
            /\ (u.query = "" /\ u.frag = "" => u.pad = 0)}

HasListingPath(link) == link \in ListingPathLinks

\* A reference to the listing page: "/afisha" up to surrounding blanks, or an
\* http(s) link, as written or as resolved, with path "/afisha".
ListingRef(u) ==
    \/ strip(u) = "/afisha"
    \/ HasListingPath(u)
    \/ HasListingPath(Normalize(u))

\* The positions of a list that hold a show: a link that is present and is no
\* reference to the listing page.
ShowIdx(list) ==
    {i \in DOMAIN list :
        LET l == extract_link(list[i]) IN ~Falsy(l) /\ ~ListingRef(l)}

ShowKeys(list) == {KeyOf(list[i]) : i \in ShowIdx(list)}

\* The first and the last position of a list that holds the show `k`.
FirstIdx(list, k) ==
    CHOOSE i \in ShowIdx(list) :
        KeyOf(list[i]) = k /\ \A j \in ShowIdx(list) : KeyOf(list[j]) = k => i <= j
LastIdx(list, k) ==
    CHOOSE i \in ShowIdx(list) :
        KeyOf(list[i]) = k /\ \A j \in ShowIdx(list) : KeyOf(list[j]) = k => j <= i

AllChanges == changes.new \o changes.changed \o changes.unchanged

KeysIn(list) == {KeyOf(list[i]) : i \in DOMAIN list}

\* C1: the lists 'new', 'changed' and 'unchanged' returned by
\* find_changed_shows partition the shows of the current list: no normalized
\* link occurs twice in them, and together they hold exactly the normalized
\* links of the current list that are no reference to the listing page.
C1_Partition ==
    Diffed =>
        /\ \A i, j \in DOMAIN AllChanges :
               i # j => KeyOf(AllChanges[i]) # KeyOf(AllChanges[j])
        /\ KeysIn(AllChanges) = ShowKeys(new)

\* A diff that fills two of the three lists.
C1_Witness ==
    /\ Diffed
    /\ Cardinality({c \in {"new", "changed", "unchanged"} : changes[c] # <<>>}) = 2

\* The entries of the diff that stand for the show `k`.
EntriesOf(k) == {i \in DOMAIN AllChanges : KeyOf(AllChanges[i]) = k}

\* Two entries of the current list are the same show.
DuplicateShows ==
    {p \in ShowIdx(new) \X ShowIdx(new) :
        p[1] < p[2] /\ KeyOf(new[p[1]]) = KeyOf(new[p[2]])}

ListingLink(u) ==
    ~Falsy(u) /\ (u = "/afisha" \/ HasListingPath(Normalize(u)))

\* C6: a listing-page link of the input is in no output: neither it nor its
\* resolved form is a link returned by _dedupe_normalize_filter_to_links or
\* the link of an entry of the three lists returned by find_changed_shows.
C6_ListingExcluded ==
    \A i \in DOMAIN new :
        LET u == extract_link(new[i])
            forms == {u, Normalize(u)}
        IN  ListingLink(u) =>
                /\ Deduped => \A j \in DOMAIN links : links[j] \notin forms
                /\ Diffed => \A j \in DOMAIN AllChanges :
                       /\ AllChanges[j].link \notin forms
                       /\ KeyOf(AllChanges[j]) \notin forms

\* Both functions applied to a list that holds a listing-page link which only
\* its resolved form gives away, next to a show that is kept.
C6_Witness ==
    /\ Diffed
    /\ Deduped
    /\ \E i \in DOMAIN new :
           LET u == extract_link(new[i])
           IN  ListingLink(u) /\ u # "/afisha" /\ ~StartsWithHttp(u)
    /\ links # <<>>
    /\ AllChanges # <<>>

\* The dates of a show in the previous list (its last entry there) and in
\* the current list (its first entry), as sets.
PrevDates(k) == ToSet(GetDates(old[LastIdx(old, k)]))
CurrDates(k) == ToSet(GetDates(new[FirstIdx(new, k)]))

\* C7: a show whose normalized link is in both lists is 'changed' if and only
\* if its previous and current dates differ as sets, and 'unchanged'
\* otherwise; the order of the dates and repeated dates do not matter.
C7_ChangedIffDateSetsDiffer ==
    Diffed =>
        \A k \in ShowKeys(new) \cap ShowKeys(old) :
            /\ k \in KeysIn(changes.changed) <=> PrevDates(k) # CurrDates(k)
            /\ k \in KeysIn(changes.unchanged) <=> PrevDates(k) = CurrDates(k)
            /\ k \notin KeysIn(changes.new)

\* A show found unchanged although its list of dates is not the previous
\* list (reordered, or a date repeated).
C7_Witness ==
    /\ Diffed
    /\ \E i \in DOMAIN changes.unchanged :
           LET k == KeyOf(changes.unchanged[i])
           IN  /\ k \in ShowKeys(old)
               /\ GetDates(changes.unchanged[i]) # GetDates(old[LastIdx(old, k)])
               /\ GetDates(changes.unchanged[i]) # <<>>


(***************************************************************************)
(* Properties of send_telegram_message                                     *)
(***************************************************************************)

MessageSent == "send_telegram_message" \in done

\* The message is longer than the limit, so it is split.
WasSplit == TextLen(message) > MAX_MESSAGE_LENGTH

\* The texts posted to the first recipient, in order.
FirstRecipientTexts ==
    LET mine == SelectSeq(posted, LAMBDA r : r.chat_id = posted[1].chat_id)
    IN  [i \in DOMAIN mine |-> mine[i].text]

\* The parts without their "Part i/N:" headers.
PartContents ==
    IF Len(FirstRecipientTexts) > 1
    THEN [i \in DOMAIN FirstRecipientTexts |-> Tail(FirstRecipientTexts[i])]
    ELSE FirstRecipientTexts

RECURSIVE Flatten(_)
Flatten(texts) == IF texts = <<>> THEN <<>> ELSE Head(texts) \o Flatten(Tail(texts))

\* The lines that are not blank, each by its content without the blanks
\* around it.
Cores(ls) ==
    LET kept == SelectSeq(ls, LAMBDA l : l.core > 0)
    IN  [i \in DOMAIN kept |-> [txt |-> kept[i].txt, core |-> kept[i].core]]

\* C8: every text handed to the transport, the "Part i/N:" header of a part
\* included, is at most 4000 characters long.
C8_EveryTextWithinLimit ==
    \A i \in DOMAIN posted : TextLen(posted[i].text) <= MAX_MESSAGE_LENGTH

\* C9 as claimed: the contents of the parts of a split message, in order and
\* without their headers, are the lines of the message, empty lines included.
C9_RoundTripClaimed ==
    MessageSent /\ WasSplit /\ posted # <<>> => Flatten(PartContents) = message

\* C9: the contents of the parts of a split message, in order and without
\* their headers, hold the lines of the message that are not blank, whole,
\* in order, none lost or duplicated; what the parts lose is blank and empty
\* lines and the blanks at the start and at the end of a part.
C9_NonBlankLinesKept ==
    MessageSent /\ WasSplit /\ posted # <<>>
        => Cores(Flatten(PartContents)) = Cores(message)

\* A message split into several parts that lost a blank or empty line.
C9_Witness ==
    /\ MessageSent /\ WasSplit /\ posted # <<>>
    /\ Len(PartContents) >= 2
    /\ Len(Flatten(PartContents)) < Len(message)
    /\ Cores(message) # <<>>

(***************************************************************************)
(* Properties of the composed notification                                 *)
(***************************************************************************)

Composed == "compose" \in done

StartsWith(text, prefix) ==
    Len(text) >= Len(prefix) /\ SubSeq(text, 1, Len(prefix)) = prefix

\* The positions of the lines of the message that start with prefix.
LinesWith(prefix) ==
    SelectSeq([i \in DOMAIN message |-> i],
              LAMBDA i : StartsWith(message[i].txt, prefix))

\* A bullet line of a show: its link, then nothing or its dates in brackets.
ListsShow(line, show) ==
    IF show.dates = <<>> THEN line.txt = "* " \o show.link
    ELSE StartsWith(line.txt, "* " \o show.link \o " (")

\* What the claim lets a group list, and the summary line it asks for.
ListedOf(group) == IF Len(group) <= 10 THEN group ELSE SubSeq(group, 1, 5)
SummaryOf(group) ==
    IF Len(group) <= 10 THEN <<>>
    ELSE <<"... and " \o ToString(Len(group) - 5) \o " more shows">>

\* C10: the message lists, group after group, every entity of a group of at
\* most 10 in order, and of a larger group exactly its first 5, followed by
\* a "... and N more" line with N the size of the group minus 5.
C10_ConciseOrSummarized ==
    Composed =>
        LET bullets == LinesWith("* ")
            summaries == LinesWith("... and ")
            listed == ListedOf(changes.new) \o ListedOf(changes.changed)
            expected == SummaryOf(changes.new) \o SummaryOf(changes.changed)
        IN  /\ Len(bullets) = Len(listed)
            /\ \A i \in DOMAIN bullets : ListsShow(message[bullets[i]], listed[i])
            /\ [i \in DOMAIN summaries |-> message[summaries[i]].txt] = expected
            /\ Len(changes.new) > 10 => summaries[1] = bullets[5] + 2
            /\ Len(changes.changed) > 10 =>
                   summaries[Len(summaries)] = bullets[Len(bullets)] + 2
            /\ Len(changes.new) > 10 /\ changes.changed # <<>> =>
                   summaries[1] < bullets[6]

\* A message with a group listed in full and a group summarized.
C10_Witness ==
    /\ Composed
    /\ Len(changes.new) > 10
    /\ Len(changes.changed) \in 1..10
    /\ Len(LinesWith("* ")) = 5 + Len(changes.changed)


(***************************************************************************)
(* Properties of the runs                                                  *)
(***************************************************************************)

\* The last run was one of afisha.main whose scrape returned a list.
ShowRunScraped ==
    program = "afisha" /\ outcome \notin {"scrape-failed", "scrape-error"}

\* The last run was one of tickets.main, enabled, whose check returned.
SeatRunChecked ==
    program = "tickets" /\ outcome \notin {"disabled", "check-error"}

\* The message is the new-seats notification of url.
AboutUrl(msg, url) ==
    /\ StartsWith(msg[1].txt, "T Found new tickets for ")
    /\ Contains(msg[1].txt, url)

\* The urls the run sent a new-seats notification for.
NotifiedUrls ==
    {url \in ToSet(TicketUrls) : \E i \in DOMAIN sent : AboutUrl(sent[i], url)}

\* C2: a run of afisha.main or of tickets.main that loaded no previous
\* snapshot (file absent, unreadable or empty) and whose scrape succeeded
\* sends nothing and hands the current snapshot to the save, which leaves it
\* in the file when the write succeeds.
C2_FirstRunSilent ==
    /\ ShowRunScraped /\ previous_shows = <<>> =>
          /\ sent = <<>> /\ posted = <<>>
          /\ saved = <<current_shows>>
          /\ write = "ok" => shows_file = JsonFile(current_shows)
    /\ SeatRunChecked /\ previous_seats = EmptyDict =>
          /\ sent = <<>> /\ posted = <<>>
          /\ saved = <<current_seats>>
          /\ write = "ok" => seats_file = JsonFile(current_seats)

\* A first seat run that saved its seats, after a first show run saved its
\* shows.
C2_Witness ==
    /\ SeatRunChecked /\ previous_seats = EmptyDict
    /\ current_seats # EmptyDict
    /\ write = "ok" /\ seats_file = JsonFile(current_seats)
    /\ shows_file.status = "json" /\ shows_file.data # <<>>

\* C3: in a seat run that loaded a previous snapshot, a url of both
\* snapshots is notified if and only if its count grew, and the current
\* snapshot is handed to the save whatever the counts.
C3_NotifyIffCountGrew ==
    SeatRunChecked /\ previous_seats # EmptyDict =>
        /\ \A url \in (DOMAIN previous_seats) \cap (DOMAIN current_seats) :
              url \in NotifiedUrls
                  <=> current_seats[url].count > previous_seats[url].count
        /\ \A url \in NotifiedUrls :
              \E i \in DOMAIN posted : AboutUrl(posted[i].text, url)
        /\ saved = <<current_seats>>
        /\ write = "ok" => seats_file = JsonFile(current_seats)

\* A seat run with a url whose count grew and a url whose count did not.
C3_Witness ==
    /\ SeatRunChecked /\ previous_seats # EmptyDict
    /\ \E u1, u2 \in (DOMAIN previous_seats) \cap (DOMAIN current_seats) :
          /\ current_seats[u1].count > previous_seats[u1].count
          /\ current_seats[u2].count < previous_seats[u2].count
          /\ NotifiedUrls = {u1}
    /\ write = "ok" /\ seats_file = JsonFile(current_seats)

\* C4: a show run that loaded a previous snapshot and whose scrape succeeded
\* writes the snapshot file if and only if the diff holds a new or a changed
\* entity or the normalized links of the two snapshots differ as sets.
C4_PersistenceGate ==
    ShowRunScraped /\ previous_shows # <<>> =>
        LET gate == \/ changes.new # <<>>
                    \/ changes.changed # <<>>
                    \/ ShowKeys(current_shows) # ShowKeys(previous_shows)
        IN  /\ gate => saved = <<current_shows>> /\ write # "none"
            /\ ~gate => saved = <<>> /\ write = "none"
            /\ write = "ok" => shows_file = JsonFile(current_shows)
            /\ write = "none" => shows_file = JsonFile(previous_shows)

\* A run that wrote the file because a show went away, nothing being new or
\* changed.
C4_Witness ==
    /\ ShowRunScraped /\ previous_shows # <<>>
    /\ changes.new = <<>> /\ changes.changed = <<>>
    /\ ShowKeys(current_shows) # ShowKeys(previous_shows)
    /\ current_shows # <<>>
    /\ write = "ok" /\ shows_file = JsonFile(current_shows)


(***************************************************************************)
(* Properties of the normalization of links                                *)
(***************************************************************************)

\* The links of the entries of a list that are present and not empty.
ValidLinks(list) ==
    {extract_link(list[i]) : i \in {j \in DOMAIN list : ~Falsy(extract_link(list[j]))}}

\* C11: normalizing a normalized link changes nothing: for every link x of
\* the input, normalize(normalize(x)) = normalize(x), and every link the
\* normalization put out is a fixed point of it.
C11_NormalizeIdempotent ==
    /\ \A x \in ValidLinks(new) : Normalize(Normalize(x)) = Normalize(x)
    /\ \A i \in DOMAIN links : Normalize(links[i]) = links[i]
    /\ \A i \in DOMAIN AllChanges : Normalize(KeyOf(AllChanges[i])) = KeyOf(AllChanges[i])

\* Both functions have run on a list with a relative link, which the
\* normalization made absolute, and a link of another scheme, which it
\* returned as it is.
C11_Witness ==
    /\ Diffed /\ Deduped
    /\ \E x \in ValidLinks(new) : ~StartsWithHttp(x) /\ StartsWithHttp(Normalize(x))
    /\ \E i \in DOMAIN links : ~StartsWithHttp(links[i])


(***************************************************************************)
(* Properties of the persisted show snapshot                               *)
(***************************************************************************)

\* The link has a scheme and a host.
AbsoluteLink(link) == urlparse[link].scheme # "" /\ urlparse[link].host # ""

C13_ReadFailureIsFirstRun ==
    /\ ShowRunScraped /\ loaded \in {"missing", "read-error"} =>
          /\ previous_shows = <<>>
          /\ outcome = "first-run"
          /\ sent = <<>> /\ posted = <<>>
          /\ saved = <<current_shows>>
          /\ write = "ok" => shows_file = JsonFile(current_shows)
    /\ SeatRunChecked /\ loaded \in {"missing", "read-error"} =>
          /\ previous_seats = EmptyDict
          /\ outcome = "first-run"
          /\ sent = <<>> /\ posted = <<>>
          /\ saved = <<current_seats>>
          /\ write = "ok" => seats_file = JsonFile(current_seats)

\* A seat run that could not parse its file and wrote a snapshot with seats
\* on sale over it.
C13_Witness ==
    /\ SeatRunChecked /\ loaded = "read-error"
    /\ \E url \in DOMAIN current_seats : current_seats[url].count > 0
    /\ write = "ok" /\ seats_file = JsonFile(current_seats)

(***************************************************************************)
(* SpecDates: _parse_ru_date_text_to_ddmmyyyy applied to one date text     *)
(***************************************************************************)

\* The twelve month names, in calendar order, and the number of each.
MonthNames ==
    <<"yanvarya", "fevralya", "marta", "aprelya", "maya", "iyunya", "iyulya",
      "avgusta", "sentyabrya", "oktyabrya", "noyabrya", "dekabrya">>
MonthNumbers ==
    <<"01", "02", "03", "04", "05", "06", "07", "08", "09", "10", "11", "12">>
MonthNumber(name) == MonthNumbers[CHOOSE i \in DOMAIN MonthNames : MonthNames[i] = name]
IsMonthName(word) == \E i \in DOMAIN MonthNames : MonthNames[i] = word

\* The words tried after the day number: every month name in four
\* capitalizations, a nominative and an abbreviated month, an English one.
MonthWords ==
    UNION {{MonthNames[i], Title(MonthNames[i]), ToUpper(MonthNames[i]),
            Mixed(MonthNames[i])} : i \in DOMAIN MonthNames}
OtherWords == {"", "yanvar", "yanv", "May", "Subbota"}

Prefixes == {"", "Sreda, ", "2025 goda "}
DayNumbers == {"", "0", "7", "07", "11", "31", "123"}
Separators == {"", " ", "  "}
Suffixes == {"", ", Subbota, 11:00"}
DateTexts ==
    {TextParts("str", pre, day, sep, word, suf) :
        pre \in Prefixes, day \in DayNumbers, sep \in Separators,
        word \in MonthWords \cup OtherWords, suf \in Suffixes}
    \cup {TextParts("none", "", "", "", "", ""), TextParts("int", "", "", "", "", "")}

InitDates ==
    /\ date_text \in DateTexts
    /\ parsed = ""
    /\ done = {}
    /\ changes = NoChanges
    /\ chat_ids = <<>>
    /\ posted = <<>>
    /\ enabled = "true"
    /\ IdleDiff
    /\ IdleSend
    /\ IdleRun
    /\ IdleSeats
    /\ IdleCall

ParseRuDateText ==
    /\ "_parse_ru_date_text_to_ddmmyyyy" \notin done
    /\ parsed' = _parse_ru_date_text_to_ddmmyyyy(TextOf(date_text))
    /\ done' = done \cup {"_parse_ru_date_text_to_ddmmyyyy"}
    /\ UNCHANGED <<callVars, histVars, diffVars, changes, sendVars, posted, envVars, date_text, runVars,
                   seatVars>>

SpecDates == InitDates /\ [][ParseRuDateText]_vars

Parsed == "_parse_ru_date_text_to_ddmmyyyy" \in done

\* The last two digits of a day number, as two digits.
TwoDigits(day) ==
    IF Len(day) = 1 THEN "0" \o day ELSE SubSeq(day, Len(day) - 1, Len(day))
\* A date text whose day number is followed by blanks and a word, and has no
\* earlier number followed by a word.
DayThenWord(t) ==
    /\ t.kind = "str"
    /\ t.pre # "2025 goda "
    /\ t.day # "" /\ t.sep # "" /\ t.word # ""
\* DD.MM.YYYY: two digits, a month from 01 to 12, the year of the clock.
IsDdMmYyyy(date) ==
    /\ Len(date) = 10
    /\ \A i \in {1, 2} : CharAt(date, i) \in Digits
    /\ CharAt(date, 3) = "." /\ CharAt(date, 6) = "."
    /\ \E i \in DOMAIN MonthNumbers : SubSeq(date, 4, 5) = MonthNumbers[i]
    /\ SubSeq(date, 7, 10) = ToString(UtcYear)

\* C17: the date parser returns, for any text, either the no-date value "" or
\* a DD.MM.YYYY string whose day is the two-digit, zero-padded day number of
\* the text, whose month is the number of the month name that follows it and
\* whose year is the current one; a text without a day number followed by a
\* word, a text whose word is not a month name of the table, None and a value
\* that is not a string give "" (nothing is raised).
C17_NoDateOrDdMmYyyy ==
    Parsed =>
        /\ parsed = "" \/ IsDdMmYyyy(parsed)
        /\ ~DayThenWord(date_text) => parsed = ""
        /\ DayThenWord(date_text) =>
              IF \E i \in DOMAIN MonthNames :
                     date_text.word \in {MonthNames[i], Title(MonthNames[i])}
              THEN parsed = TwoDigits(date_text.day) \o "."
                            \o MonthNumber(ToLower(date_text.word)) \o "."
                            \o ToString(UtcYear)
              ELSE parsed = ""
C17_Witness ==
    /\ Parsed
    /\ date_text.pre = "Sreda, " /\ date_text.day = "7" /\ date_text.sep = "  "
    /\ date_text.word = "Maya" /\ date_text.suf = ", Subbota, 11:00"
    /\ parsed = "07.05.2025"

\* C18: the month name is recognized whatever its capitalization: a day number
\* followed by a month name of the table in lower case, Title case, upper case
\* or mixed case parses to the date the lower-case spelling parses to.
C18_AnyCapitalizationParses ==
    Parsed /\ DayThenWord(date_text) /\ IsMonthName(ToLower(date_text.word)) =>
        parsed = TwoDigits(date_text.day) \o "."
                 \o MonthNumber(ToLower(date_text.word)) \o "." \o ToString(UtcYear)

\* The ticket urls of the previous snapshot that the run has no entry for.
NotScrapedAgain == DOMAIN previous_seats \ DOMAIN current_seats

\* C15: a seat run whose scrape completed hands exactly the snapshot it built
\* to the save, and a write that succeeds leaves exactly that snapshot in the
\* file: its keys are the urls scraped in this run, each entry is the one
\* built for its url, and no entry of the previous snapshot is carried over.
C15_TotalOverwrite ==
    SeatRunChecked =>
        /\ saved = <<current_seats>>
        /\ \A url \in DOMAIN current_seats :
               /\ url \in ToSet(TicketUrls)
               /\ current_seats[url].url = url
               /\ current_seats[url].count = Len(current_seats[url].available_seats)
        /\ write = "ok" =>
               /\ seats_file.status = "json"
               /\ DOMAIN seats_file.data = DOMAIN current_seats
               /\ \A url \in DOMAIN current_seats :
                      seats_file.data[url] = current_seats[url]
               /\ \A url \in NotScrapedAgain : url \notin DOMAIN seats_file.data
\* A run after the first one that wrote a snapshot without a url that the
\* previous snapshot had.
C15_Witness ==
    /\ SeatRunChecked /\ outcome = "checked" /\ write = "ok"
    /\ NotScrapedAgain # {}
    /\ current_seats # EmptyDict
    /\ DOMAIN seats_file.data = DOMAIN current_seats

\* C16: a seat run overwrites only the entries it has current values for;
\* every other entry of the previously persisted snapshot is carried forward
\* unmodified into the persisted snapshot (the partial-update policy of a
\* weekend-only run, which tickets.main runs the same code for as for a full
\* run).
C16_OthersCarriedForward ==
    SeatRunChecked /\ outcome = "checked" /\ write = "ok" =>
        \A url \in NotScrapedAgain :
            /\ url \in DOMAIN seats_file.data
            /\ seats_file.data[url] = previous_seats[url]

(***************************************************************************)
(* SpecTotal: the three functions on the input shapes that must not stop   *)
(* them                                                                    *)
(***************************************************************************)

\* The entries of a list: null, an empty link, a dict with an empty link, a
\* dict without "link", the same show as a relative and as an absolute link,
\* the listing page, another link.
ShapeItems ==
    { Null,
      Str(""),
      Dict("", <<D1>>),
      Dict(NoLink, <<D1>>),
      Dict(LinkStr(ShowRel), <<D1>>),
      Str(LinkStr(ShowAbs)),
      Str(LinkStr(ListingRaw)),
      Str(LinkStr(TicketAbs)) }
OldShapes == {<<>>, <<Null, Dict(LinkStr(ShowAbs), <<D2>>), Str(""), Dict(NoLink, <<>>)>>}
ShapeTexts ==
    { TextParts("str", "", "7", " ", "yanv", ""),
      TextParts("str", "", "7", " ", "maya", ", 11:00") }
MaxShapes == 3

InitTotal ==
    /\ old \in OldShapes
    /\ new \in SeqsUpTo(ShapeItems, MaxShapes)
    /\ date_text \in ShapeTexts
    /\ parsed = ""
    /\ changes = NoChanges
    /\ links = <<>>
    /\ done = {}
    /\ chat_ids = <<>>
    /\ enabled = "true"
    /\ posted = <<>>
    /\ IdleSend
    /\ IdleRun
    /\ IdleSeats
    /\ IdleCall

NextTotal == FindChangedShows \/ DedupeNormalizeFilter \/ ParseRuDateText

SpecTotal == InitTotal /\ [][NextTotal]_vars

\* The entries that have no link, and the positions of the other entries
\* that do not refer to the listing page.
NoLinkEntry(entry) ==
    \/ entry.type \notin {"dict", "str"}
    \/ entry.link = NoLink
    \/ entry.link = ""
Processable(list) ==
    {i \in DOMAIN list : ~NoLinkEntry(list[i]) /\ ~ListingRef(list[i].link)}
ProcessableKeys(list) == {Normalize(list[i].link) : i \in Processable(list)}

\* C14: on lists that are empty or hold nulls, entries with an empty or a
\* missing link and duplicate links, _dedupe_normalize_filter_to_links and
\* find_changed_shows return a result: it holds no entry for an item without
\* a link, and it holds every other item (that is not the listing page), also
\* those that come after an item without a link; the date parser returns the
\* no-date value for a text with an unknown month name and a date for the
\* text next to it.
C14_OffendingItemsExcludedOnly ==
    /\ Deduped =>
          /\ ToSet(links) = ProcessableKeys(new)
          /\ \A i \in DOMAIN links : ~Falsy(links[i])
          /\ new = <<>> => links = <<>>
    /\ Diffed =>
          /\ KeysIn(AllChanges) = ProcessableKeys(new)
          /\ \A i \in DOMAIN AllChanges : ~NoLinkEntry(AllChanges[i])
          /\ Len(AllChanges) = Cardinality(ProcessableKeys(new))
          /\ new = <<>> => changes = NoChanges
          /\ \A i \in Processable(new) :
                 Normalize(new[i].link) \in ProcessableKeys(old)
                     <=> Normalize(new[i].link) \notin KeysIn(changes.new)
    /\ Parsed =>
          IF date_text.word = "maya" THEN parsed = "07.05." \o ToString(UtcYear)
          ELSE parsed = ""
\* All three have run on a list whose first entry is null and whose second
\* entry is a show, next to an old list with nulls and empty links.
C14_Witness ==
    /\ Deduped /\ Diffed /\ Parsed
    /\ Len(new) = 2 /\ new[1] = Null /\ new[2] = Str(LinkStr(ShowAbs))
    /\ old # <<>>
    /\ links = <<LinkStr(ShowAbs)>>
    /\ Len(changes.changed) = 1
    /\ date_text.word = "yanv" /\ parsed = ""

\* C20: the list _dedupe_normalize_filter_to_links returns holds every
\* normalized link once, holds exactly the normalized links of the entries
\* that have a link other than the listing page, and holds them in the order
\* in which they first occur in the input.
C20_FirstOccurrenceOrder ==
    Deduped =>
        /\ \A i, j \in DOMAIN links : links[i] = links[j] => i = j
        /\ ToSet(links) = ShowKeys(new)
        /\ \A i, j \in DOMAIN links :
               i < j => FirstIdx(new, links[i]) < FirstIdx(new, links[j])
\* The same show comes first as a relative link and last as an absolute one,
\* with another link between them.
C20_Witness ==
    /\ Deduped
    /\ new = <<Dict(LinkStr(ShowRel), <<D1>>), Str(LinkStr(TicketAbs)),
               Str(LinkStr(ShowAbs))>>
    /\ links = <<LinkStr(ShowAbs), LinkStr(TicketAbs)>>

(***************************************************************************)
(* Ticket links: selenium_seats.py and the discovery of check_all_shows    *)
(***************************************************************************)

\* A link by the parts urlparse sees in it: host, path, the name=value pairs
\* of the query, the fragment, and `pad` blanks around it.
TceUrl(host, path, query, frag, pad) ==
    [host |-> host, path |-> path, query |-> query, frag |-> frag, pad |-> pad]
RECURSIVE QueryStr(_)
QueryStr(query) ==
    IF query = <<>> THEN ""
    ELSE Head(query)[1] \o "=" \o Head(query)[2]
         \o (IF Tail(query) = <<>> THEN "" ELSE "&" \o QueryStr(Tail(query)))
TceStr(t) ==
    Rep(" ", t.pad) \o "https://" \o t.host \o t.path
    \o (IF t.query = <<>> THEN "" ELSE "?" \o QueryStr(t.query))
    \o t.frag \o Rep(" ", t.pad)

BaseAndData(id) == <<<<"base", "RkZD">>, <<"data", id>>>>
TicketPage1 == TceUrl("tce.by", "/shows.html", BaseAndData("3811"), "", 0)
TicketPage1Hall == TceUrl("tce.by", "/shows.html", BaseAndData("3811"), "#hall", 0)
TicketPage2 == TceUrl("tce.by", "/shows.html", BaseAndData("3812"), "", 0)
TicketPage2Padded == TceUrl("tce.by", "/shows.html", BaseAndData("3812"), "", 1)
TicketNoData == TceUrl("tce.by", "/shows.html", BaseAndData(""), "", 0)
TceHome == TceUrl("tce.by", "/index.php", <<<<"view", "shows">>>>, "", 0)
TceInPath ==
    TceUrl("puppet-minsk.by", "/tce.by/shows.html", BaseAndData("3811"), "", 0)

\* The links found on pages, in the order sorted() puts their strings in.
TceOrder ==
    <<TceStr(TceInPath), TceStr(TceHome), TceStr(TicketNoData), TceStr(TicketPage1),
      TceStr(TicketPage1Hall), TceStr(TicketPage2)>>
TceHrefs == ToSet(TceOrder)

RECURSIVE TceTable(_)
TceTable(ts) ==
    IF ts = {} THEN [s \in {} |-> TceHome]
    ELSE LET t == CHOOSE x \in ts : TRUE
         IN  (TceStr(t) :> t) @@ TceTable(ts \ {t})
TceParse ==
    TceTable({TceInPath, TceHome, TicketNoData, TicketPage1, TicketPage1Hall,
              TicketPage2, TicketPage2Padded})

\* u.strip()
StripUrl(url) == TceStr([TceParse[url] EXCEPT !.pad = 0])

\* url.split('#')[0]
_strip_fragment(url) == TceStr([TceParse[url] EXCEPT !.frag = ""])

EndsWith(text, suffix) ==
    Len(text) >= Len(suffix)
    /\ SubSeq(text, Len(text) - Len(suffix) + 1, Len(text)) = suffix

\* name in parse_qs(query): parse_qs leaves out a parameter without a value.
InQs(query, name) ==
    \E i \in DOMAIN query : query[i][1] = name /\ query[i][2] # ""

\* A validity test that looks for the vendor's name anywhere in the link.
IsTceShowLinkAnywhere(url) == Contains(url, "tce.by")

_is_tce_show_link(url) ==
    IF Falsy(url) THEN FALSE
    ELSE LET parsed_url == TceParse[url]
             host == ToLower(parsed_url.host)
             path == ToLower(parsed_url.path)
         IN  /\ Contains(host, "tce.by")
             /\ EndsWith(path, "/shows.html") \/ EndsWith(path, "shows.html")
             /\ InQs(parsed_url.query, "base") /\ InQs(parsed_url.query, "data")

\* "unique preserve order"
RECURSIVE Unique(_, _)
Unique(urls, result) ==
    IF urls = <<>> THEN result
    ELSE Unique(Tail(urls),
                IF Head(urls) \in ToSet(result) THEN result
                ELSE Append(result, Head(urls)))

\* The elements a[href*='tce.by/shows.html'] and iframe[src*=...] select.
CssShowsHtml(href) == Contains(href, "tce.by/shows.html")

\* _discover_ticket_urls_from_show on a page with the links `hrefs`.
_discover_ticket_urls_from_show(hrefs) ==
    LET anchors == SelectSeq(hrefs, CssShowsHtml)
        kept == SelectSeq(anchors, _is_tce_show_link)
        urls == [i \in DOMAIN kept |-> _strip_fragment(kept[i])]
    IN  Unique(urls, <<>>)

\* scrape_ticket_page: the cells with a price in their title.
scrape_ticket_page(url, cells) ==
    LET seats == SelectSeq(cells, OnSale)
    IN  [url |-> url, count |-> Len(seats), seats |-> seats]

\* The dict of the urls in `keys`, each with entry(url).
DictOver(keys, entry(_)) ==
    IF keys = {} THEN EmptyDict ELSE [url \in keys |-> entry(url)]

\* One run of selenium_seats.main: TCE_TEST_URLS split at the commas
\* (`test_urls`, <<>> when unset), in `order` the list made of their set;
\* else the remote show links and the links on their pages (`hrefs`); the
\* cells of each ticket page (`pages`, no entry for a page whose scrape
\* raises); how the write of the output file ends.
selenium_main(file, test_urls, order, show_links, hrefs, pages, how) ==
    LET discovered ==
            IF show_links = <<>> THEN <<>>
            ELSE _discover_ticket_urls_from_show(hrefs)
        urls == IF test_urls # <<>> THEN order
                ELSE Unique(SelectSeq(discovered, _is_tce_show_link), <<>>)
        scraped == ToSet(urls) \cap DOMAIN pages
        data == DictOver(scraped, LAMBDA u : scrape_ticket_page(u, pages[u]))
    IN  IF (test_urls = <<>> /\ show_links = <<>>) \/ urls = <<>>
        THEN [ticket_urls |-> urls, out |-> EmptyDict, file |-> file]
        ELSE [ticket_urls |-> urls, out |-> data, file |-> Written(file, data, how)]

\* The set TCE_TEST_URLS leaves: the valid ones, without blanks and fragment.
TestUrlSet(test_urls) ==
    {_strip_fragment(StripUrl(test_urls[i])) :
        i \in {j \in DOMAIN test_urls : _is_tce_show_link(StripUrl(test_urls[j]))}}

\* load_tickets_cache and save_tickets_cache
EmptyCache == [ticket_urls |-> <<>>, show_to_tickets |-> EmptyDict]
load_tickets_cache(file) == IF file.status = "json" THEN file.data ELSE EmptyCache
save_tickets_cache(file, cache_data, how) == Written(file, cache_data, how)

\* sorted(set(...)) of links
Sorted(urls) == SelectSeq(TceOrder, LAMBDA u : u \in urls)

\* The urls of `extracted` appended to a show's cached list as they come.
AppendAll(cached, extracted) == cached \o extracted

\* The urls of `extracted` appended to a show's cached list, each once.
RECURSIVE AppendNew(_, _)
AppendNew(cached, extracted) ==
    IF extracted = <<>> THEN cached
    ELSE AppendNew(IF Head(extracted) \in ToSet(cached) THEN cached
                   ELSE Append(cached, Head(extracted)),
                   Tail(extracted))

\* What check_all_shows does once the browser runs: `shows_from_file` is what
\* load_shows_from_afisha returned, `crawled` the show pages the categories
\* lead to, `extracted` the ticket links found on each show page and behind
\* its buy links (no entry for a page that fails to load), `pages` the seat
\* cells of each ticket page.
check_all_shows(file, shows_from_file, crawled, extracted, pages, how) ==
    LET normalized_links ==
            {Normalize(shows_from_file[i]) :
                i \in {j \in DOMAIN shows_from_file : ~Falsy(shows_from_file[j])}}
        seeded_direct_ticket_urls == {l \in normalized_links : Contains(l, "tce.by")}
        seeded_show_urls == normalized_links \ seeded_direct_ticket_urls
        cache == load_tickets_cache(file)
        cached_ticket_urls == ToSet(cache.ticket_urls)
        cached_map == cache.show_to_tickets
        reused == UNION {ToSet(cached_map[show_url]) :
                            show_url \in seeded_show_urls \cap DOMAIN cached_map}
        seeded_ticket_urls == seeded_direct_ticket_urls \cup reused
        discovered_show_urls ==
            IF seeded_ticket_urls = {} /\ seeded_show_urls = {} /\ cached_ticket_urls = {}
            THEN crawled ELSE seeded_show_urls
        visited == discovered_show_urls \cap DOMAIN extracted
        found == UNION {ToSet(extracted[show_url]) : show_url \in visited}
        with_links == {show_url \in visited : extracted[show_url] # <<>>}
        new_map ==
            DictOver(DOMAIN cached_map \cup with_links,
                     LAMBDA show_url :
                         LET before == IF show_url \in DOMAIN cached_map
                                       THEN cached_map[show_url] ELSE <<>>
                         IN  IF show_url \in with_links
                             THEN AppendNew(before, extracted[show_url])
                             ELSE before)
        discovered_ticket_urls == seeded_ticket_urls \cup found
        all_ticket_urls == Sorted(discovered_ticket_urls \cup cached_ticket_urls)
        checked == {url \in ToSet(all_ticket_urls) : url \in DOMAIN pages /\ pages[url] # <<>>}
    IN  [file |-> save_tickets_cache(file,
                      [ticket_urls |-> all_ticket_urls, show_to_tickets |-> new_map],
                      how),
         current_seats |->
             DictOver(checked, LAMBDA url : show_data(url, TitleOf(url), pages[url]))]

(***************************************************************************)
(* SpecSeats: one run of check_all_shows and one of selenium_seats.main    *)
(***************************************************************************)

ShowPage == LinkStr(ShowAbs)

\* The tickets cache earlier runs can have left.
CacheFiles ==
    { AbsentFile,
      CorruptFile,
      JsonFile([ticket_urls |-> <<TceStr(TicketPage2)>>, show_to_tickets |-> EmptyDict]),
      JsonFile([ticket_urls |-> <<TceStr(TceHome)>>,
                show_to_tickets |-> (ShowPage :> <<TceStr(TceHome)>>)]) }

\* What load_shows_from_afisha can return.
ShowsFromFile ==
    { <<>>, <<ShowPage>>, <<TceStr(TicketPage1)>>, <<ShowPage, TceStr(TceInPath)>> }

\* The ticket links of a show page: all of a[href*='tce.by'], of the iframes,
\* of the data attributes, of the scripts and of the page text.
ExtractedLinks ==
    SeqsUpTo(TceHrefs, 1)
    \cup {<<TceStr(TicketPage1Hall), TceStr(TceHome)>>,
           <<TceStr(TicketPage1), TceStr(TicketPage1)>>}

\* The seat cells of the ticket pages: none on a page that shows no hall, one
\* not on sale and one on sale on the pages that show one.
PagesWithHall ==
    { {}, TceHrefs, TceHrefs \ {TceStr(TceHome)},
      {TceStr(TicketPage1), TceStr(TicketPage2)} }
TicketPages ==
    {[url \in TceHrefs |-> IF url \in with_hall THEN <<SeatTitle(1), SeatTitle(2)>>
                           ELSE <<>>] : with_hall \in PagesWithHall}

\* The values of TCE_TEST_URLS, split at the commas.
TestUrls ==
    SeqsUpTo({TceStr(TicketPage2Padded), TceStr(TicketPage1Hall), TceStr(TicketPage1),
              TceStr(TceHome), TceStr(TicketNoData)}, 2) \ {<<>>}

\* The functions from a subset of S to T.
PartialFunctions(S, T) == UNION {[D -> T] : D \in SUBSET S}

InitSeats ==
    /\ tickets_cache_file \in CacheFiles
    /\ ticket_urls = <<>>
    /\ out = EmptyDict
    /\ seats_out_file = AbsentFile
    /\ changes = NoChanges
    /\ posted = <<>>
    /\ done = {}
    /\ chat_ids = <<>>
    /\ enabled = "true"
    /\ IdleDiff
    /\ IdleSend
    /\ IdleRun
    /\ IdleDates
    /\ IdleCall

CheckAllShows ==
    /\ "check_all_shows" \notin done
    /\ \E shows_from_file \in ShowsFromFile, crawled \in SUBSET {ShowPage},
          extracted \in PartialFunctions({ShowPage}, ExtractedLinks),
          pages \in TicketPages, how \in WriteOutcomes :
           \E r \in {check_all_shows(tickets_cache_file, shows_from_file, crawled,
                                     extracted, pages, how)} :
               /\ tickets_cache_file' = r.file
               /\ current_seats' = r.current_seats
    /\ done' = done \cup {"check_all_shows"}
    /\ UNCHANGED <<callVars, histVars, diffVars, changes, sendVars, posted, envVars, dateVars,
                   ticket_urls, out, seats_out_file, shows_file, seats_file,
                   program, loaded, previous_shows, current_shows, previous_seats,
                   sent, saved, write, outcome>>

SeleniumMain ==
    /\ "selenium_seats.main" \notin done
    /\ \E pages \in PartialFunctions({TceStr(TicketPage1), TceStr(TicketPage2)},
                                     {<<>>, <<SeatTitle(2)>>}),
          how \in WriteOutcomes :
           \E r \in UNION {{selenium_main(seats_out_file, test_urls, order, <<>>, <<>>,
                                           pages, how) :
                                 order \in Orderings(TestUrlSet(test_urls))} :
                             test_urls \in TestUrls}
                    \cup
                    {selenium_main(seats_out_file, <<>>, <<>>, show_links, hrefs, pages, how) :
                         show_links \in {<<>>, <<ShowPage>>},
                         hrefs \in SeqsUpTo(TceHrefs, MaxHrefs)} :
               /\ ticket_urls' = r.ticket_urls
               /\ out' = r.out
               /\ seats_out_file' = r.file
    /\ done' = done \cup {"selenium_seats.main"}
    /\ UNCHANGED <<callVars, histVars, diffVars, changes, sendVars, posted, envVars, dateVars,
                   tickets_cache_file, runVars>>

NextSeats == CheckAllShows \/ SeleniumMain

SpecSeats == InitSeats /\ [][NextSeats]_vars

\* The runs of check_all_shows alone.
SpecCache == InitSeats /\ [][CheckAllShows]_vars

\* The links of the model with host tce.by, a path that ends with shows.html
\* and a value for both base and data.
ValidTicketLinks == {TceStr(TicketPage1), TceStr(TicketPage1Hall), TceStr(TicketPage2)}

\* C19: every key of a seat snapshot, that of selenium_seats.main (out and the
\* file written from it) and that of check_all_shows (current_seats), is a
\* valid ticket link: host with 'tce.by', path ending with 'shows.html',
\* query with 'base' and 'data'.
C19_SnapshotKeysAreTicketLinks ==
    /\ DOMAIN out \subseteq ValidTicketLinks
    /\ seats_out_file.status = "json" => DOMAIN seats_out_file.data \subseteq ValidTicketLinks
    /\ DOMAIN current_seats \subseteq ValidTicketLinks

\* The number of days of a month (29 for February, as in a leap year).
DaysInMonth ==
    <<31, 29, 31, 30, 31, 30, 31, 31, 30, 31, 30, 31>>
MonthIndex(mm) == CHOOSE i \in DOMAIN MonthNumbers : MonthNumbers[i] = mm

\* C30: a date the parser returns is a day of the calendar: its day field is
\* at least 01 and at most the number of days of its month.
C30_DayOfTheMonth ==
    Parsed /\ parsed # "" =>
        LET day == IntOf(SubSeq(parsed, 1, 2))
            mm == SubSeq(parsed, 4, 5)
        IN  day >= 1 /\ day <= DaysInMonth[MonthIndex(mm)]

\* The ids of CHAT_IDS that are not blank, in their order.
NonBlankIds == SelectSeq(chat_ids, LAMBDA c : c \notin {"", " "})

\* The delivery of part i to the r-th non-blank recipient.
Delivery(r, i) ==
    [chat_id |-> NonBlankIds[r],
     text |-> PartText(MessageParts(message), i)]

\* C29: send_telegram_message hands every part, in part order, to every
\* non-blank recipient, whatever the answers to the earlier requests were,
\* and returns True exactly when no request failed.
C29_EveryDeliveryAttempted ==
    MessageSent =>
        LET n == Len(MessageParts(message))
        IN  /\ Len(posted) = Len(NonBlankIds) * n
            /\ \A r \in DOMAIN NonBlankIds : \A i \in 1..n :
                   posted[(r - 1) * n + i] = Delivery(r, i)
            /\ success = (failed = {})

\* A split message for two recipients whose first request failed.
C29_Witness ==
    /\ MessageSent
    /\ WasSplit
    /\ Len(NonBlankIds) = 2
    /\ 1 \in failed
    /\ Len(posted) >= 4
    /\ ~success

(***************************************************************************)
(* SpecFlag: one run of tickets.main for each value of the environment     *)
(* variable AFISHA_CHECK_ENABLED, on a seat snapshot left by earlier runs   *)
(***************************************************************************)

EnvValues ==
    {EnvUnset, "", "0", "false", "no", "off", "1", "true", "yes", "True", "YES"}

\* The seat snapshots earlier runs can have left.
SeatSnapshots ==
    {AbsentFile, CorruptFile}
    \cup {JsonFile(check.shows) : check \in {c \in SeatChecks : ~c.raised}}

InitFlag ==
    /\ chat_ids = <<"111", " ", "222">>
    /\ enabled \in EnvValues
    /\ seats_file \in SeatSnapshots
    /\ shows_file = AbsentFile
    /\ program = "none"
    /\ loaded = "none"
    /\ previous_shows = <<>>
    /\ current_shows = <<>>
    /\ previous_seats = EmptyDict
    /\ current_seats = EmptyDict
    /\ sent = <<>>
    /\ saved = <<>>
    /\ write = "none"
    /\ outcome = "none"
    /\ changes = NoChanges
    /\ posted = <<>>
    /\ done = {}
    /\ IdleDiff
    /\ IdleSend
    /\ IdleDates
    /\ IdleSeats
    /\ IdleCall

\* The run of tickets.main of a process that has not run it yet.
TicketsMainOnce == program = "none" /\ TicketsMain

SpecFlag == InitFlag /\ [][TicketsMainOnce]_vars

\* What a run of tickets.main that did nothing leaves: nothing loaded,
\* scraped, sent or written, and the files as they were.
NothingDone ==
    /\ outcome' = "disabled"
    /\ loaded' = "none"
    /\ previous_seats' = EmptyDict
    /\ current_seats' = EmptyDict
    /\ sent' = <<>>
    /\ posted' = posted
    /\ saved' = <<>>
    /\ write' = "none"
    /\ seats_file' = seats_file
    /\ shows_file' = shows_file
    /\ tickets_cache_file' = tickets_cache_file

\* C28 as stated: a run of tickets.main with AFISHA_CHECK_ENABLED not one of
\* '1', 'true', 'yes' loads, scrapes, sends and writes nothing.
C28_NotOneOfTheThree ==
    [][(program' = "tickets" /\ enabled \notin {"1", "true", "yes"})
           => NothingDone]_vars

\* C28: a run of tickets.main with AFISHA_CHECK_ENABLED unset, or set to a
\* value that in lower case is none of '1', 'true', 'yes', loads, scrapes,
\* sends and writes nothing.
C28_DisabledRunDoesNothing ==
    [][(program' = "tickets" /\ ToLower(enabled) \notin {"1", "true", "yes"})
           => NothingDone]_vars

\* A disabled run on an existing seat snapshot.
C28_Witness ==
    /\ program = "tickets"
    /\ enabled \in {EnvUnset, "no"}
    /\ outcome = "disabled"
    /\ seats_file.status = "json"
    /\ seats_file.data # EmptyDict

\* The last run was one of afisha.main whose scrape raised.
ShowScrapeFailed == program = "afisha" /\ outcome \in {"scrape-failed", "scrape-error"}

\* The message is the report of a failed scrape, not a notification.
IsErrorReport(msg) == Len(msg) = 1 /\ StartsWith(msg[1].txt, "Error checking shows: ")

\* C23: a run of afisha.main whose scrape raises makes no diff, sends no
\* notification of new or changed shows and writes nothing: the snapshot
\* file after the run is the one before it.  A suppressed failure sends
\* nothing at all, a reported one only the error report.
C23_FailedScrapeKeepsSnapshot ==
    [][ShowScrapeFailed' =>
           /\ shows_file' = shows_file
           /\ seats_file' = seats_file
           /\ changes' = NoChanges
           /\ saved' = <<>>
           /\ write' = "none"
           /\ \A i \in DOMAIN sent' : IsErrorReport(sent'[i])
           /\ (outcome' = "scrape-failed" => sent' = <<>> /\ posted' = <<>>)]_vars

\* A reported scrape failure of a run that had a snapshot with shows.
C23_Witness ==
    /\ ShowScrapeFailed
    /\ outcome = "scrape-error"
    /\ sent # <<>>
    /\ shows_file.status = "json"
    /\ shows_file.data # <<>>

(***************************************************************************)
(* SpecRetry: the retry loops of get_shows_with_retry and                  *)
(* check_tickets_for_show, one step per try block and per except branch    *)
(***************************************************************************)

MaxRetries == 3

RetryLoops == {"get_shows_with_retry", "check_tickets_for_show"}

\* How the try block of one attempt can end.  get_shows_with_retry fails
\* with browser and context still None (the launch failed) or with both
\* set; check_tickets_for_show fails with a TimeoutError or another
\* exception.
AttemptOutcomes(fn) ==
    IF fn = "get_shows_with_retry" THEN {"ok", "launch-failed", "page-failed"}
    ELSE {"ok", "timeout", "error"}

\* What `await context.close()` and `await browser.close()` in the except
\* branch of get_shows_with_retry can do: they are awaited outside any try
\* block, after the `async with async_playwright()` block has been left.
\* check_tickets_for_show closes nothing.
CloseOutcomes(fn, how) ==
    IF fn = "get_shows_with_retry" /\ how = "page-failed"
    THEN {"closed", "close-raised"}
    ELSE {"nothing-to-close"}

\* The try block of the attempt: it returns, or control goes to the except
\* branch.
try_block(c, how) ==
    IF how = "ok"
    THEN [c EXCEPT !.log = Append(@, how), !.pc = "done", !.result = "returned"]
    ELSE [c EXCEPT !.log = Append(@, how), !.pc = "except"]

\* The except branch: the clean-up, `raise` on the last attempt, otherwise
\* the sleep and the next attempt.
except_branch(c, close) ==
    IF close = "close-raised" \/ c.attempt = c.max_retries - 1
    THEN [c EXCEPT !.pc = "done", !.result = "raised"]
    ELSE [c EXCEPT !.attempt = @ + 1, !.pc = "try"]

InitRetry ==
    /\ call \in [fn : RetryLoops, max_retries : 1..MaxRetries, attempt : {0},
                 pc : {"try"}, log : {<<>>}, result : {"none"}]
    /\ chat_ids = <<"111">>
    /\ enabled = "true"
    /\ changes = NoChanges
    /\ posted = <<>>
    /\ done = {}
    /\ IdleDiff
    /\ IdleSend
    /\ IdleRun
    /\ IdleDates
    /\ IdleSeats
    /\ stable = <<>>

Attempt ==
    /\ call.pc = "try"
    /\ \E how \in AttemptOutcomes(call.fn) : call' = try_block(call, how)
    /\ UNCHANGED <<histVars, diffVars, changes, done, sendVars, posted, envVars, dateVars,
                   seatVars, runVars>>

HandleFailure ==
    /\ call.pc = "except"
    /\ \E close \in CloseOutcomes(call.fn, call.log[Len(call.log)]) :
           call' = except_branch(call, close)
    /\ UNCHANGED <<histVars, diffVars, changes, done, sendVars, posted, envVars, dateVars,
                   seatVars, runVars>>

NextRetry == Attempt \/ HandleFailure

SpecRetry == InitRetry /\ [][NextRetry]_vars

\* C24: a retry loop makes at most max_retries attempts, returns with the
\* first attempt that succeeds, and raises only after max_retries attempts
\* have failed; a call that is over has returned or raised.
C24_RaisesOnlyAfterLastAttempt ==
    LET made == Len(call.log)
    IN  /\ made <= call.max_retries
        /\ call.result = "returned" =>
               /\ call.log[made] = "ok"
               /\ \A i \in 1..(made - 1) : call.log[i] # "ok"
        /\ call.result = "raised" =>
               /\ made = call.max_retries
               /\ \A i \in 1..made : call.log[i] # "ok"
        /\ call.pc = "done" => call.result \in {"returned", "raised"}

(***************************************************************************)
(* SpecNotify: the run of afisha.main that finds new or changed shows, in  *)
(* two steps: send_telegram_message(combined_msg), then                    *)
(* save_shows(current_shows)                                               *)
(***************************************************************************)

\* The show snapshots earlier runs can have left.
ShowSnapshots ==
    {AbsentFile, CorruptFile}
    \cup {JsonFile(enriched_shows(scrape.shows)) :
             scrape \in {sc \in ShowScrapes : ~sc.raised}}

\* A save whose failure is not caught: the run ends with the exception.
save_after_send_raising(file, shows, how) ==
    [file |-> save_shows(file, shows, how), saved |-> <<shows>>, write |-> how,
     outcome |-> IF how = "ok" THEN "notified" ELSE "save-raised"]

\* save_shows(current_shows) after the send: the write is tried, a failure
\* is logged inside save_shows, and main goes on to its end.
save_after_send(file, shows, how) ==
    [file |-> save_shows(file, shows, how), saved |-> <<shows>>, write |-> how,
     outcome |-> "notified"]

InitNotify ==
    /\ chat_ids = <<"111", " ", "222">>
    /\ enabled = "true"
    /\ shows_file \in ShowSnapshots
    /\ seats_file = AbsentFile
    /\ program = "none"
    /\ loaded = "none"
    /\ previous_shows = <<>>
    /\ current_shows = <<>>
    /\ previous_seats = EmptyDict
    /\ current_seats = EmptyDict
    /\ sent = <<>>
    /\ saved = <<>>
    /\ write = "none"
    /\ outcome = "none"
    /\ changes = NoChanges
    /\ posted = <<>>
    /\ done = {}
    /\ IdleDiff
    /\ IdleSend
    /\ IdleDates
    /\ IdleSeats
    /\ IdleCall

\* main up to send_telegram_message(combined_msg), for a scrape with new or
\* changed shows; the requests at the positions `failing` fail.
ComposeAndSend ==
    /\ program = "none"
    /\ \E scrape \in ShowScrapes :
        \E r \in {afisha_main(shows_file, scrape, "ok")} :
            /\ r.outcome = "notified"
            /\ \E failing \in SUBSET (1..Len(PostedFor(r.sent, chat_ids))) :
                \E delivery \in {send_telegram_message(r.sent[1], chat_ids, failing)} :
                    /\ message' = r.sent[1]
                    /\ posted' = delivery.requests
                    /\ success' = delivery.success
                    /\ failed' = failing
            /\ program' = "afisha"
            /\ loaded' = r.loaded
            /\ previous_shows' = r.previous_shows
            /\ current_shows' = r.current_shows
            /\ changes' = r.changes
            /\ sent' = r.sent
            /\ outcome' = "sent"
    /\ UNCHANGED <<callVars, histVars, shows_file, seats_file, previous_seats, current_seats,
                   saved, write, diffVars, envVars, dateVars, seatVars, done>>

\* save_shows(current_shows), the statement after the send.
SaveShows ==
    /\ program = "afisha"
    /\ outcome = "sent"
    /\ \E how \in WriteOutcomes :
        \E r \in {save_after_send(shows_file, current_shows, how)} :
            /\ shows_file' = r.file
            /\ saved' = r.saved
            /\ write' = r.write
            /\ outcome' = r.outcome
    /\ UNCHANGED <<callVars, histVars, seats_file, program, loaded, previous_shows, current_shows,
                   previous_seats, current_seats, sent, changes, posted,
                   diffVars, sendVars, envVars, dateVars, seatVars, done>>

NextNotify == ComposeAndSend \/ SaveShows

SpecNotify == InitNotify /\ [][NextNotify]_vars

\* C22: in a show run with new or changed shows the notification is handed
\* to the transport before the write of the snapshot is tried; the write is
\* tried whatever the deliveries returned; a write that fails leaves the
\* messages of the run as they were and lets main end normally.
C22_SendThenSaveWhateverHappens ==
    /\ [](write # "none" => sent # <<>> /\ posted # <<>>)
    /\ [][outcome = "sent" /\ outcome' # "sent" => write' \in WriteOutcomes]_vars
    /\ [][write' # write =>
              /\ sent' = sent /\ posted' = posted
              /\ success' = success /\ failed' = failed
              /\ outcome' = "notified"]_vars

\* A run whose first delivery failed and whose write failed after it.
C22_Witness ==
    /\ outcome = "notified"
    /\ 1 \in failed /\ ~success
    /\ posted # <<>>
    /\ write = "dump-failed"
    /\ shows_file = CorruptFile

\* The cache a file holds for the next run: that of a file that is not
\* there is empty.
CacheOf(file) == IF file.status = "json" THEN file.data ELSE EmptyCache

IsPrefix(short, long) ==
    Len(short) <= Len(long) /\ SubSeq(long, 1, Len(short)) = short

NoDuplicates(urls) ==
    \A i, j \in DOMAIN urls : urls[i] = urls[j] => i = j

\* C27: a run of check_all_shows that reads the cache file and writes it
\* drops no cached ticket url; it leaves the list of every cached show as
\* it was or with urls appended, and no list holds an url twice.
C27_CacheOnlyGrows ==
    [][(/\ "check_all_shows" \in done' \ done
        /\ tickets_cache_file.status # "corrupt"
        /\ tickets_cache_file'.status = "json")
       => LET before == CacheOf(tickets_cache_file)
              after == CacheOf(tickets_cache_file')
          IN  /\ ToSet(before.ticket_urls) \subseteq ToSet(after.ticket_urls)
              /\ NoDuplicates(after.ticket_urls)
              /\ \A show_url \in DOMAIN before.show_to_tickets :
                     /\ show_url \in DOMAIN after.show_to_tickets
                     /\ IsPrefix(before.show_to_tickets[show_url],
                                 after.show_to_tickets[show_url])
              /\ \A show_url \in DOMAIN after.show_to_tickets :
                     NoDuplicates(after.show_to_tickets[show_url])]_vars

\* The cached list of the show page, extended by a link found in this run.
C27_Witness ==
    /\ "check_all_shows" \in done
    /\ tickets_cache_file.status = "json"
    /\ ShowPage \in DOMAIN tickets_cache_file.data.show_to_tickets
    /\ tickets_cache_file.data.show_to_tickets[ShowPage]
           = <<TceStr(TceHome), TceStr(TicketPage1Hall)>>
    /\ TceStr(TceHome) \in ToSet(tickets_cache_file.data.ticket_urls)

\* The date of the performance each ticket page sells seats for, as the page
\* shows it: the page with the smaller id is the later performance.
PerformanceDate == (TicketUrls[1] :> "02.01.2025") @@ (TicketUrls[2] :> "01.01.2025")

\* The place of a canonical date in the order of the calendar; an unknown
\* date comes after every date.
DateRank(date) ==
    IF date = "" THEN 99999999
    ELSE IntOf(SubSeq(date, 7, 10)) * 10000 + IntOf(SubSeq(date, 4, 5)) * 100
         + IntOf(SubSeq(date, 1, 2))

\* The ticket url a new-seats notification is about.
UrlOf(msg) == CHOOSE url \in ToSet(TicketUrls) : AboutUrl(msg, url)

\* The seat count of url went up from the previous snapshot to this run.
SeatCountWentUp(url) ==
    /\ url \in DOMAIN current_seats
    /\ current_seats[url].count >
           (IF url \in DOMAIN previous_seats THEN previous_seats[url].count ELSE 0)

\* C21: a seat run that is not the first sends exactly one message for each
\* ticket url whose seat count increased, none for the others, and sends
\* them in ascending order of the dates of the performances, those of
\* unknown date last.
C21_OnePerIncreaseInDateOrder ==
    SeatRunChecked /\ previous_seats # EmptyDict =>
        /\ \A url \in ToSet(TicketUrls) :
               Cardinality({i \in DOMAIN sent : AboutUrl(sent[i], url)})
                   = (IF SeatCountWentUp(url) THEN 1 ELSE 0)
        /\ \A i, j \in DOMAIN sent :
               i < j => DateRank(PerformanceDate[UrlOf(sent[i])])
                            <= DateRank(PerformanceDate[UrlOf(sent[j])])

\* The entities of a show list: each link with the set of its dates.
EntitySet(shows) ==
    {[link |-> shows[i].link, dates |-> ToSet(shows[i].dates)] : i \in DOMAIN shows}

\* The step is a run of afisha.main whose scrape returned the entities of
\* the snapshot the file held.
UnchangedScrape ==
    /\ program' = "afisha"
    /\ outcome' \notin {"scrape-failed", "scrape-error"}
    /\ shows_file.status = "json"
    /\ EntitySet(current_shows') = EntitySet(shows_file.data)

\* The run sent nothing and wrote nothing.
QuietRun ==
    /\ sent' = <<>> /\ posted' = <<>>
    /\ saved' = <<>> /\ write' = "none"
    /\ shows_file' = shows_file

\* C25 as stated: a show run whose scrape returns the entities of the
\* persisted snapshot sends no notification and performs no write.
C25_UnchangedScrapeIsQuiet ==
    [][UnchangedScrape => QuietRun]_vars

\* C25: a show run whose scrape returns the entities of the persisted
\* snapshot, when that snapshot holds at least one show, sends no
\* notification and performs no write.
C25_UnchangedShowsAreQuiet ==
    [][UnchangedScrape /\ shows_file.data # <<>> => QuietRun]_vars

\* The second of two runs that found the same shows, one of them with dates.
C25_Witness ==
    /\ program = "afisha"
    /\ outcome = "no-op"
    /\ shows_file.status = "json"
    /\ previous_shows = shows_file.data
    /\ EntitySet(current_shows) = EntitySet(shows_file.data)
    /\ \E i \in DOMAIN current_shows : current_shows[i].dates # <<>>
    /\ sent = <<>> /\ write = "none"

(***************************************************************************)
(* SpecSeatRuns: runs of tickets.main one after the other, with the        *)
(* history of the counts each ticket page was scraped with                 *)
(***************************************************************************)

\* The history after a scrape of url that returned count n: n, and the
\* earlier counts that n is not below.
after_scrape(counts, n) == {c \in counts : c <= n} \cup {n}

InitSeatRuns ==
    /\ chat_ids = <<"111">>
    /\ enabled = "true"
    /\ changes = NoChanges
    /\ posted = <<>>
    /\ done = {}
    /\ call = NoCall
    /\ stable = [url \in ToSet(TicketUrls) |-> {}]
    /\ IdleDiff
    /\ IdleSend
    /\ IdleRun
    /\ IdleDates
    /\ IdleSeats

\* tickets.main, and the history of its scrapes.
TicketsMainTracked ==
    /\ TicketsRun
    /\ stable' = [url \in ToSet(TicketUrls) |->
                     IF outcome' \in {"first-run", "checked"}
                        /\ url \in DOMAIN current_seats'
                     THEN after_scrape(stable[url], current_seats'[url].count)
                     ELSE stable[url]]

SpecSeatRuns == InitSeatRuns /\ [][TicketsMainTracked]_vars

\* C26: a run of tickets.main that scrapes a ticket url with a seat count
\* that an earlier run scraped it with, no scrape of the url in between
\* having returned less, sends no new-seats notification for the url; the
\* scrape of the url may have failed in runs in between.
C26_NoRepeatWithoutIncrease ==
    [][\A url \in ToSet(TicketUrls) :
           (/\ outcome' \in {"first-run", "checked"}
            /\ url \in DOMAIN current_seats'
            /\ current_seats'[url].count \in stable[url])
           => ~ \E i \in DOMAIN sent' : AboutUrl(sent'[i], url)]_vars
====
